---- MODULE Spec2Model ----
(***************************************************************************)
(* netdumplings: the dumpling hub (dumplinghub.py), the dumpling codec     *)
(* (dumpling.py) and the ingress validation (_shared.py) as a state        *)
(* machine.                                                                *)
(*                                                                         *)
(* The hub is a single-threaded asyncio program.  Every accepted           *)
(* connection is one task, the status synthesizer is one task.  A task     *)
(* runs until an await really suspends it: a frame read, a frame write, a  *)
(* get on an empty queue, a put on a full queue, a sleep.                  *)
(***************************************************************************)
EXTENDS Integers, Sequences, FiniteSets, TLC

\* ---------------------------------------------------------------- bounds
NK == 2           \* producer (kitchen) connections
NE == 2           \* consumer (eater) connections
MaxClose == 1     \* streams the peers close in a run
MaxSend == 2      \* frames taken in a run: dumplings read from producers
                  \* plus rounds of the status synthesizer
MaxStatus == 1    \* rounds of the status synthesizer
MaxRounds == 3    \* rounds of the status synthesizer when no producer
                  \* is connected
NC == 2           \* chefs that may register with the kitchen
MaxPackets == 2   \* packets the sniffer captures
MaxTicks == 1     \* poke ticks
MaxFrames == 3    \* frames the eater receives
MaxCount == 2     \* largest eat-limit given to the eater's run()
MaxUp == 4        \* dumplings the kitchen process puts on the uplink queue
MaxHandlerCalls == 3   \* handler calls made on the bundled chefs
MaxSleeps == 3         \* sleep(1) calls of the nd-sniff supervisor

Kitchens == 1..NK
Eaters == (NK + 1)..(NK + NE)
Hub == 0          \* source tag of frames built by the hub itself
None == "None"

\* ------------------------------------------------------------ JSON values
\* A parsed JSON document.  Objects are functions from their keys.
JNull == [t |-> "null"]
JNum(n) == [t |-> "num", n |-> n]
JStr(s) == [t |-> "str", s |-> s]
JList(seq) == [t |-> "list", v |-> seq]
JObj(m) == [t |-> "obj", m |-> m]

\* One-key and two-key Python dicts, and dict union (right side wins).
Pair(k, v) == [x \in {k} |-> v]
Merge(f, g) == [x \in (DOMAIN f) \cup (DOMAIN g) |->
                  IF x \in DOMAIN g THEN g[x] ELSE f[x]]
EmptyDict == [x \in {} |-> JNull]

\* A Python value json.dumps cannot encode (a set, a function, an object).
PyObject == [t |-> "pyobject"]

\* json.dumps accepts the value: it is built of None, numbers, strings,
\* lists and dicts only.
RECURSIVE Encodable(_)
Encodable(v) ==
    CASE v.t \in {"null", "num", "str"} -> TRUE
      [] v.t = "list" -> \A i \in DOMAIN v.v : Encodable(v.v[i])
      [] v.t = "obj" -> \A k \in DOMAIN v.m : Encodable(v.m[k])
      [] OTHER -> FALSE

\* Results of an operation that may raise.
Ok(v) == [exc |-> None, val |-> v]
Raise(e) == [exc |-> e, val |-> JNull]

\* A wire frame is a text; json tells whether the text is a JSON document,
\* doc is the document it denotes, and form how it is written: json.dumps
\* writes a document in one way ("dumps"), a peer may write the same
\* document with other spacing or key order ("other").
Text(doc) == [json |-> TRUE, doc |-> doc, form |-> "dumps"]
NotJsonText == [json |-> FALSE, doc |-> JNull, form |-> "other"]
Respaced(text) == [text EXCEPT !.form = "other"]

\* json.loads on a str.
JsonLoads(text) ==
    IF text.json THEN Ok(text.doc) ELSE Raise("JSONDecodeError")

\* Python's v[k] for a str key k.
Subscript(v, k) ==
    IF v.t = "obj"
    THEN IF k \in DOMAIN v.m THEN Ok(v.m[k]) ELSE Raise("KeyError")
    ELSE Raise("TypeError")

\* validate_dumpling: the parsed document, or InvalidDumpling.
\* (variant: except KeyError only, as Dumpling.from_json has it)
validate_dumpling_NoTypeError(dumpling_json) ==
    LET loaded == JsonLoads(dumpling_json) IN
    IF loaded.exc # None THEN Raise("InvalidDumpling")
    ELSE LET md == Subscript(loaded.val, "metadata") IN
         IF md.exc = "KeyError" THEN Raise("InvalidDumpling")
         ELSE IF md.exc # None THEN Raise(md.exc)
         ELSE LET chef == Subscript(md.val, "chef") IN
              IF chef.exc = "KeyError" THEN Raise("InvalidDumpling")
              ELSE IF chef.exc # None THEN Raise(chef.exc)
              ELSE Ok(loaded.val)

validate_dumpling(dumpling_json) ==
    LET loaded == JsonLoads(dumpling_json) IN
    IF loaded.exc = "JSONDecodeError" THEN Raise("InvalidDumpling")
    ELSE LET md == Subscript(loaded.val, "metadata") IN
         IF md.exc \in {"KeyError", "TypeError"} THEN Raise("InvalidDumpling")
         ELSE LET chef == Subscript(md.val, "chef") IN
              IF chef.exc \in {"KeyError", "TypeError"}
              THEN Raise("InvalidDumpling")
              ELSE Ok(loaded.val)

\* ------------------------------------------------------- Dumpling (codec)
\* Dumpling.kitchen is None, a kitchen object with a name, or (after
\* from_json) whatever JSON value metadata.kitchen held.
NoKitchen == [k |-> "none"]
KitchenObject(name) == [k |-> "object", name |-> name]
KitchenValue(v) == [k |-> "json", v |-> v]

\* A DumplingChef: it has a name and a kitchen (None or a kitchen object).
ChefObject(name, kitchen) == [t |-> "chef", name |-> name, kitchen |-> kitchen]

\* Dumpling.__init__.  A chef object gives chef.name and chef.kitchen; a
\* chef given by name (a str or any JSON value has no .name attribute)
\* gives chef_name = chef, kitchen = None.  The caller passes the clock
\* reading where the code defaults creation_time to time.time().
DumplingInit(chef, driver, creation_time, payload) ==
    IF chef.t = "chef"
    THEN [chef_name |-> JStr(chef.name), kitchen |-> chef.kitchen,
          driver |-> driver, creation_time |-> creation_time,
          payload |-> payload]
    ELSE [chef_name |-> chef, kitchen |-> NoKitchen, driver |-> driver,
          creation_time |-> creation_time, payload |-> payload]

\* Dumpling.from_json.  Only the json.loads call and the body of the
\* try block are guarded; dumpling_dict['metadata'] is not, and the try
\* block catches KeyError only.
from_json(json_dumpling) ==
    LET loaded == JsonLoads(json_dumpling) IN
    IF loaded.exc \in {"JSONDecodeError", "TypeError", "ValueError"}
    THEN Raise("InvalidDumpling")
    ELSE
    LET md == Subscript(loaded.val, "metadata") IN
    IF md.exc # None THEN Raise(md.exc)
    ELSE
    LET drv == Subscript(md.val, "driver") IN
    IF drv.exc = "KeyError" THEN Raise("InvalidDumpling")
    ELSE IF drv.exc # None THEN Raise(drv.exc)
    ELSE IF drv.val \notin {JStr("packet"), JStr("interval")}
    THEN Raise("InvalidDumpling")
    ELSE
    LET chef == Subscript(md.val, "chef") IN
    IF chef.exc # None THEN Raise("InvalidDumpling")
    ELSE
    LET ctime == Subscript(md.val, "creation_time") IN
    IF ctime.exc # None THEN Raise("InvalidDumpling")
    ELSE
    LET payload == Subscript(loaded.val, "payload") IN
    IF payload.exc # None THEN Raise("InvalidDumpling")
    ELSE
    LET kitchen == Subscript(md.val, "kitchen") IN
    IF kitchen.exc # None THEN Raise("InvalidDumpling")
    ELSE Ok([DumplingInit(chef.val, drv.val.s, ctime.val, payload.val)
               EXCEPT !.kitchen = KitchenValue(kitchen.val)])

\* Truthiness of a Dumpling.kitchen value (None, '' and empty containers
\* are false).
Truthy(kitchen) ==
    CASE kitchen.k = "none" -> FALSE
      [] kitchen.k = "object" -> TRUE
      [] OTHER ->
           CASE kitchen.v.t = "null" -> FALSE
             [] kitchen.v.t = "num" -> kitchen.v.n # 0
             [] kitchen.v.t = "str" -> kitchen.v.s # ""
             [] kitchen.v.t = "list" -> kitchen.v.v # <<>>
             [] OTHER -> DOMAIN kitchen.v.m # {}

\* DumplingDriver: the value of the member of that name.
DriverValue(name) == IF name = "packet" THEN JNum(1) ELSE JNum(2)

\* (variant: 'driver': self.driver.value)
to_json_DriverValue(d) ==
    IF Truthy(d.kitchen) /\ d.kitchen.k # "object"
    THEN Raise("AttributeError")
    ELSE
    LET kname == IF Truthy(d.kitchen) THEN JStr(d.kitchen.name) ELSE JNull
        metadata == [chef |-> d.chef_name, kitchen |-> kname,
                     creation_time |-> d.creation_time,
                     driver |-> DriverValue(d.driver)] IN
    IF ~Encodable(d.payload) THEN Raise("InvalidDumplingPayload")
    ELSE Ok(Text(JObj([metadata |-> JObj(metadata), payload |-> d.payload])))

\* Dumpling.to_json.  self.kitchen.name exists only on a kitchen object;
\* json.dumps raises TypeError on a payload it cannot encode.
to_json(d) ==
    IF Truthy(d.kitchen) /\ d.kitchen.k # "object"
    THEN Raise("AttributeError")
    ELSE
    LET kname == IF Truthy(d.kitchen) THEN JStr(d.kitchen.name) ELSE JNull
        metadata == [chef |-> d.chef_name, kitchen |-> kname,
                     creation_time |-> d.creation_time,
                     driver |-> JStr(d.driver)] IN
    IF ~Encodable(d.payload) THEN Raise("InvalidDumplingPayload")
    ELSE Ok(Text(JObj([metadata |-> JObj(metadata), payload |-> d.payload])))

\* --------------------------------------------------------- codec inputs
MetaKeys == {"chef", "driver", "kitchen", "creation_time"}
DriverValues == {JStr("packet"), JStr("interval"), JStr("other")}

KitchenValues == {JStr("K"), JNull}

MetaValue(key, driver, kitchen) ==
    CASE key = "chef" -> JStr("ChefA")
      [] key = "driver" -> driver
      [] key = "kitchen" -> kitchen
      [] OTHER -> JNum(1)

MetaObjects ==
    {JObj([k \in S |-> MetaValue(k, d, kn)]) :
        S \in SUBSET MetaKeys, d \in DriverValues, kn \in KitchenValues}

MetaValues == MetaObjects \cup {JNull, JStr("chef"), JNum(1), JList(<<>>)}

PayloadValues == {JNull, JObj(Pair("hello", JNum(1)))}

TopObjects ==
    {JObj(EmptyDict)}
    \cup {JObj(Pair("metadata", m)) : m \in MetaValues}
    \cup {JObj(Pair("payload", p)) : p \in PayloadValues}
    \cup {JObj(Merge(Pair("metadata", m), Pair("payload", p))) :
             m \in MetaValues, p \in PayloadValues}

CodecInputs ==
    {NotJsonText}
    \cup {Text(d) : d \in TopObjects}
    \cup {Text(d) : d \in {JNull, JNum(1), JStr("metadata"), JList(<<>>)}}

\* Dumplings as the program builds them: by a chef of a kitchen (or of
\* none), or by the hub from a chef name; with either driver, a clock
\* reading and a JSON payload.
BuiltChefs ==
    {ChefObject("ChefA", KitchenObject("K")), ChefObject("ChefA", NoKitchen),
     JStr("SystemStatusChef")}
BuiltPayloads ==
    {JNull, JNum(0), JStr(""), JList(<<JNum(1)>>),
     JObj(Pair("hello", JList(<<JNull>>)))}
BuiltDumplings ==
    {DumplingInit(c, d, JNum(1), p) :
        c \in BuiltChefs, d \in {"packet", "interval"}, p \in BuiltPayloads}

\* ------------------------------------------------------------ hub frames
HUB_STATUS_FREQ == 5

\* What a producer or a consumer sends first: its identity frame.  A peer
\* may send anything first; the hub reads it as the identity.
GoodDumplingText ==
    Respaced(
    Text(JObj([metadata |-> JObj([chef |-> JStr("ChefA"),
                                  kitchen |-> JStr("K"),
                                  creation_time |-> JNum(1),
                                  driver |-> JStr("packet")]),
               payload |-> JObj(Pair("hello", JNum(1)))])))
NoChefText == Text(JObj([metadata |-> JObj(Pair("kitchen", JStr("K"))),
                         payload |-> JNull]))

KitchenIdentityText ==
    Text(JObj([kitchen_name |-> JStr("K"), interface |-> JStr("all"),
               filter |-> JStr(""), chefs |-> JList(<<JStr("ChefA")>>),
               poke_interval |-> JNum(5)]))
EaterIdentityText == Text(JObj(Pair("eater_name", JStr("E"))))

KitchenFirstTexts == {KitchenIdentityText, GoodDumplingText}
EaterFirstTexts == {EaterIdentityText, Text(JObj(EmptyDict))}
NullText == Text(JNull)
DumplingTexts == {GoodDumplingText, NoChefText, NullText, NotJsonText}

\* A frame in the model: the text on the wire, tagged with the stream it
\* came from and its position on that stream.
Frame(src, seq, text) == [src |-> src, seq |-> seq, text |-> text]
NoFrame == Frame(Hub, 0, NotJsonText)

VARIABLES
    \* DumplingHub
    dumpling_kitchens,  \* keys of _dumpling_kitchens, in insertion order
    dumpling_eaters,    \* keys of _dumpling_eaters, in insertion order
    kmeta,              \* _dumpling_kitchens[k]['metadata']
    emeta,              \* _dumpling_eaters[e]['metadata']
    queue,              \* _dumpling_eaters[e]['queue']
    dumplings_in, dumplings_out,   \* _system_stats
    log_errors,         \* calls of _logger.error
    \* the tasks
    kpc, kcur, kidx, klen, ktgt,   \* _grab_dumplings, one per producer
    epc, ecur,                     \* _emit_dumplings, one per consumer
    spc, scur, sidx, slen, stgt,   \* _announce_system_status
    nstatus,                       \* status rounds begun
    \* the consumer streams
    eopen,              \* the consumer has not closed its stream
    stalled,            \* the consumer never accepts a write
    esent,              \* frames written to the consumer's stream
    \* history
    received,           \* frames each producer sent, as its ingress task
                        \* read them
    admitted,           \* frames that passed validation, with the consumer
                        \* table at that moment
    enqueued,           \* every frame ever put on a consumer's queue
    kfirst,             \* consumer table when a producer sent its first
                        \* dumpling
    announced,          \* status frames built, with the consumer table at
                        \* that moment
    \* DumplingHub.run and hub_cli
    rpc,                \* "new", "serving", or "exited"
    bound,              \* the ports bound, in order
    run_exc,            \* the exception that left run(), or None
    exit_codes,         \* the codes of the command's sys.exit calls
    status_task,        \* _announce_system_status was scheduled
    closed_with,        \* the close code each stream was closed with when
                        \* the hub shut down (0: it was not)
    cancelled,          \* the tasks run() cancelled
    \* codec harness
    cin, cdump, cpc, cout,
    \* DumplingKitchen
    chefs,              \* self._chefs, in registration order
    dumpling_queue,     \* the outbound queue: encoded dumplings
    log_exceptions,     \* calls of _logger.exception
    started,            \* run() was called
    tpc, tidx, tn,      \* the capture thread and the poke thread: where
                        \* each is, its position in the chef loop, the
                        \* packets or ticks it has taken
    tcalls,             \* handler calls of a thread's current packet or tick
    puts,               \* for each queued dumpling: thread, packet or
                        \* tick number, chef
    chef_poke_interval, \* self.chef_poke_interval
    \* DumplingEater
    on_connect, on_dumpling, on_connection_lost,   \* the hooks given
    eater_chefs,        \* self.chefs: None or the chef names wanted
    dumpling_count,     \* the eat-limit given to run()
    gpc,                \* where run() and its _grab_dumplings task are
    was_connected,      \* self._was_connected
    dumplings_eaten,    \* the local counter of _grab_dumplings
    ws_out,             \* frames the eater sent on its stream
    ws_in,              \* frames the eater received
    ws_close,           \* the codes of the eater's websocket.close calls
    hook_calls,         \* every hook invocation, in order
    eater_log,          \* calls of logger.error and logger.warning
    eater_exc,          \* the exception that left run(), or None
    ws_events,          \* what the eater's awaits raised, in order
    \* the uplink: send_dumplings_from_queue_to_hub
    upc,                \* where the uplink coroutine is
    up_queue,           \* the outbound queue it reads
    up_cur,             \* the dumpling it dequeued and is sending
    up_dequeued,        \* every dumpling it dequeued, in order
    up_sent,            \* the frames it wrote to its stream
    up_open,            \* the hub has not closed the stream
    up_cancel,          \* a cancellation of the task is pending
    up_close,           \* the codes of its websocket.close calls
    up_log,             \* calls of log.error, log.warning, log.exception
    up_events,          \* what its awaits raised, in order
    \* the bundled chefs
    made,               \* the Dumpling objects built by send_dumpling:
                        \* chef, the handler that built it, driver
    chef_exc,           \* what the last handler call raised, or None
    chef_calls,         \* handler calls made so far
    packet_counts,      \* PacketCountChef.packet_counts (all layers)
    lookups_seen,       \* DNSLookupChef.lookups_seen (lookups counted)
    \* sniff_cli
    proc,               \* the sniffer and the emitter process: "new",
                        \* "running", "dead" or "terminated"
    sup_pc,             \* where sniff_cli is
    terminate_calls,    \* its terminate() calls: the process and the
                        \* state it was in
    sup_log,            \* its logger.error and logger.warning calls
    sleeps,             \* its sleep(1) calls
    seen                \* what its last is_alive() call on each process
                        \* returned: "alive", "dead", or "unknown"

hubvars == <<dumpling_kitchens, dumpling_eaters, kmeta, emeta, queue,
             dumplings_in, dumplings_out, log_errors>>
kvars == <<kpc, kcur, kidx, klen, ktgt>>
evars == <<epc, ecur>>
svars == <<spc, scur, sidx, slen, stgt, nstatus>>
estream == <<eopen, stalled, esent>>
history == <<received, admitted, enqueued, kfirst, announced>>
codecvars == <<cin, cdump, cpc, cout>>
kitchenvars == <<chefs, dumpling_queue, log_exceptions, started, tpc, tidx,
                 tn, tcalls, puts, chef_poke_interval>>
hubstate == <<hubvars, kvars, evars, svars, estream, history>>
eatervars == <<on_connect, on_dumpling, on_connection_lost, eater_chefs,
               dumpling_count, gpc, was_connected, dumplings_eaten, ws_out,
               ws_in, ws_close, hook_calls, eater_log, eater_exc,
               ws_events>>
runvars == <<rpc, bound, run_exc, exit_codes, status_task, closed_with,
             cancelled>>
uplinkvars == <<upc, up_queue, up_cur, up_dequeued, up_sent, up_open,
                up_cancel, up_close, up_log, up_events>>
chefvars == <<made, chef_exc, chef_calls, packet_counts, lookups_seen>>
supervars == <<proc, sup_pc, terminate_calls, sup_log, sleeps, seen>>
offhub == <<codecvars, kitchenvars, eatervars, runvars, uplinkvars,
            chefvars, supervars>>
vars == <<hubstate, offhub>>

Range(seq) == {seq[i] : i \in DOMAIN seq}
Remove(seq, x) == SelectSeq(seq, LAMBDA y : y # x)

\* asyncio.Queue(): maxsize 0, the queue is never full.
QueueMaxsize == 0
\* (variant: asyncio.Queue(maxsize=1), full as soon as it holds an item)
Full_MaxsizeOne(q) == q # <<>>
Full(q) == QueueMaxsize > 0 /\ Len(q) >= QueueMaxsize

\* --------------------------------------------------------------- Init
CodecIdle ==
    /\ cin = NotJsonText
    /\ cdump = DumplingInit(JNull, "packet", JNull, JNull)
    /\ cpc = "idle"
    /\ cout = Raise(None)

\* DumplingHub.__init__, before any connection.
HubInit ==
    /\ dumpling_kitchens = <<>>
    /\ dumpling_eaters = <<>>
    /\ kmeta = [k \in Kitchens |-> JNull]
    /\ emeta = [e \in Eaters |-> JNull]
    /\ queue = [e \in Eaters |-> <<>>]
    /\ dumplings_in = 0
    /\ dumplings_out = 0
    /\ log_errors = 0
    /\ kpc = [k \in Kitchens |-> "idle"]
    /\ kcur = [k \in Kitchens |-> NoFrame]
    /\ kidx = [k \in Kitchens |-> 0]
    /\ klen = [k \in Kitchens |-> 0]
    /\ ktgt = [k \in Kitchens |-> 0]
    /\ epc = [e \in Eaters |-> "idle"]
    /\ ecur = [e \in Eaters |-> NoFrame]
    /\ spc = "start"
    /\ scur = NoFrame
    /\ sidx = 0
    /\ slen = 0
    /\ stgt = 0
    /\ nstatus = 0
    /\ eopen = [e \in Eaters |-> FALSE]
    /\ stalled = [e \in Eaters |-> FALSE]
    /\ esent = [e \in Eaters |-> <<>>]
    /\ received = [k \in Kitchens |-> <<>>]
    /\ admitted = {}
    /\ enqueued = [e \in Eaters |-> <<>>]
    /\ kfirst = [k \in Kitchens |-> {}]
    /\ announced = {}
    /\ rpc = "new"
    /\ bound = <<>>
    /\ run_exc = None
    /\ exit_codes = <<>>
    /\ status_task = FALSE
    /\ closed_with = [c \in Kitchens \cup Eaters |-> 0]
    /\ cancelled = {}

\* DumplingKitchen.__init__: no chef registered, nothing running.
Threads == {"sniff", "poke"}
KitchenInit ==
    /\ chefs = <<>>
    /\ dumpling_queue = <<>>
    /\ log_exceptions = 0
    /\ started = FALSE
    /\ tpc = [t \in Threads |-> "off"]
    /\ tidx = [t \in Threads |-> 0]
    /\ tn = [t \in Threads |-> 0]
    /\ tcalls = [t \in Threads |-> <<>>]
    /\ puts = <<>>
    /\ chef_poke_interval = JNum(5)

\* No DumplingEater constructed yet.
EaterIdle ==
    /\ on_connect = None
    /\ on_dumpling = None
    /\ on_connection_lost = None
    /\ eater_chefs = JNull
    /\ dumpling_count = JNull
    /\ gpc = "new"
    /\ was_connected = FALSE
    /\ dumplings_eaten = 0
    /\ ws_out = <<>>
    /\ ws_in = <<>>
    /\ ws_close = <<>>
    /\ hook_calls = <<>>
    /\ eater_log = <<>>
    /\ eater_exc = None
    /\ ws_events = <<>>

\* The uplink process not started yet.
UplinkIdle ==
    /\ upc = "off"
    /\ up_queue = <<>>
    /\ up_cur = NotJsonText
    /\ up_dequeued = <<>>
    /\ up_sent = <<>>
    /\ up_open = FALSE
    /\ up_cancel = FALSE
    /\ up_close = <<>>
    /\ up_log = <<>>
    /\ up_events = <<>>

\* No handler of a bundled chef called yet.
ChefIdle ==
    /\ made = <<>>
    /\ chef_exc = None
    /\ chef_calls = 0
    /\ packet_counts = 0
    /\ lookups_seen = 0

\* nd-sniff not started.
Processes == {"sniffer", "emitter"}
SuperIdle ==
    /\ proc = [p \in Processes |-> "new"]
    /\ sup_pc = "new"
    /\ terminate_calls = <<>>
    /\ sup_log = <<>>
    /\ sleeps = 0
    /\ seen = [p \in Processes |-> "unknown"]

Init ==
    /\ HubInit /\ CodecIdle /\ KitchenInit /\ EaterIdle /\ UplinkIdle
    /\ ChefIdle /\ SuperIdle

\* ---------------------------------------------------------- scheduling
\* A task inside its "for eater in self._dumpling_eaters" loop whose next
\* put does not have to wait keeps the event loop: await queue.put(...)
\* returns without suspending unless the queue is full.
\* (variant: every put hands the event loop back)
FanoutReady_PutSuspends == {}
FanoutReady ==
    {k \in Kitchens : kpc[k] = "fanout" /\ ~Full(queue[ktgt[k]])}
    \cup (IF spc = "fanout" /\ ~Full(queue[stgt]) THEN {Hub} ELSE {})

\* The event loop may pick another task.
LoopFree == FanoutReady = {}

\* ---------------------------------------------------------- the peers
RECURSIVE SumOver(_, _)
SumOver(f, S) ==
    IF S = {} THEN 0
    ELSE LET x == CHOOSE y \in S : TRUE IN f[x] + SumOver(f, S \ {x})

\* Frames taken so far: dumplings read plus status rounds.
TotalSent ==
    SumOver([k \in Kitchens |-> Len(received[k])], Kitchens) + nstatus

\* Streams closed by their peer so far.
TotalClose == Cardinality({k \in Kitchens : kpc[k] = "done"})
              + Cardinality({e \in Eaters : epc[e] # "idle" /\ ~eopen[e]})

\* A consumer closes its stream.
EaterClose(e) ==
    /\ eopen[e]
    /\ TotalClose < MaxClose
    /\ LoopFree
    /\ eopen' = [eopen EXCEPT ![e] = FALSE]
    /\ UNCHANGED <<hubvars, kvars, evars, svars, stalled, esent, history,
                   offhub>>

\* ------------------------------------------------------ _grab_dumplings
\* The metadata the hub keeps for a connection.
Metadata(infokey, info, peer) ==
    JObj(Merge(Pair(infokey, info),
               Pair("info_from_hub",
                    JObj([host |-> JStr("host"), port |-> JNum(peer)]))))

\* Line 150: dumplings_in counts a frame once validate_dumpling returned.
\* (variant: counted before validation)
CountIn_BeforeValidate(n, v) == n + 1
CountIn(n, v) == IF v.exc = None THEN n + 1 ELSE n

\* Lines 110-131: a producer connects and its first frame arrives; record
\* the kitchen, look up its name.  Nothing here is inside the try block.
\* Connections are numbered in the order they are accepted.
\* (variant: the first frame is validated and counted like a dumpling)
GrabIdentity_AsDumpling(k, text) ==
    /\ rpc = "serving"
    /\ kpc[k] = "idle"
    /\ \A j \in Kitchens : j < k => kpc[j] # "idle"
    /\ LoopFree
    /\ LET loaded == JsonLoads(text)
           name == IF loaded.exc = None
                   THEN Subscript(loaded.val, "kitchen_name")
                   ELSE loaded
       IN /\ IF loaded.exc # None
             THEN UNCHANGED <<dumpling_kitchens, kmeta>>
             ELSE /\ dumpling_kitchens' = Append(dumpling_kitchens, k)
                  /\ kmeta' = [kmeta EXCEPT ![k] =
                       Metadata("info_from_kitchen", loaded.val, k)]
          /\ kpc' = [kpc EXCEPT ![k] =
                       IF name.exc = None THEN "recv" ELSE "dead"]
    /\ dumplings_in' = CountIn(dumplings_in, validate_dumpling(text))
    /\ UNCHANGED <<dumpling_eaters, emeta, queue,
                   dumplings_out, log_errors, kcur, kidx, klen, ktgt, evars,
                   svars, estream, history, offhub>>

GrabIdentity(k, text) ==
    /\ rpc = "serving"
    /\ kpc[k] = "idle"
    /\ \A j \in Kitchens : j < k => kpc[j] # "idle"
    /\ LoopFree
    /\ LET loaded == JsonLoads(text)
           name == IF loaded.exc = None
                   THEN Subscript(loaded.val, "kitchen_name")
                   ELSE loaded
       IN /\ IF loaded.exc # None
             THEN UNCHANGED <<dumpling_kitchens, kmeta>>
             ELSE /\ dumpling_kitchens' = Append(dumpling_kitchens, k)
                  /\ kmeta' = [kmeta EXCEPT ![k] =
                       Metadata("info_from_kitchen", loaded.val, k)]
          /\ kpc' = [kpc EXCEPT ![k] =
                       IF name.exc = None THEN "recv" ELSE "dead"]
    /\ UNCHANGED <<dumpling_eaters, emeta, queue, dumplings_in,
                   dumplings_out, log_errors, kcur, kidx, klen, ktgt, evars,
                   svars, estream, history, offhub>>

\* The step of "for eater in self._dumpling_eaters" after a put (or at the
\* start, with idx = 0): the dict iterator raises RuntimeError when the
\* dict changed size, else yields the next key or ends the loop.
IterNext(idx, len) ==
    IF Len(dumpling_eaters) # len THEN [pc |-> "dead", idx |-> idx, tgt |-> 0]
    ELSE IF idx >= len THEN [pc |-> "next", idx |-> 0, tgt |-> 0]
    ELSE [pc |-> "fanout", idx |-> idx + 1, tgt |-> dumpling_eaters[idx + 1]]

\* Lines 135-161 up to the first put: the producer's next frame arrives.
GrabRecv(k, text) ==
    /\ kpc[k] = "recv"
    /\ LoopFree
    /\ TotalSent < MaxSend
    /\ LET frame == Frame(k, Len(received[k]) + 1, text)
           v == validate_dumpling(text)
           it == IterNext(0, Len(dumpling_eaters))
       IN /\ received' = [received EXCEPT ![k] = Append(@, frame)]
          /\ kfirst' = IF received[k] = <<>>
                       THEN [kfirst EXCEPT ![k] = Range(dumpling_eaters)]
                       ELSE kfirst
          /\ dumplings_in' = CountIn(dumplings_in, v)
          /\ IF v.exc = "InvalidDumpling"
             THEN /\ log_errors' = log_errors + 1
                  /\ UNCHANGED <<admitted, kvars>>
             ELSE IF v.exc # None
             THEN /\ kpc' = [kpc EXCEPT ![k] = "dead"]
                  /\ UNCHANGED <<admitted, log_errors, kcur, kidx, klen,
                                 ktgt>>
             ELSE /\ admitted' = admitted \cup
                       {[f |-> frame, regs |-> Range(dumpling_eaters)]}
                  /\ kpc' = [kpc EXCEPT ![k] =
                       IF it.pc = "next" THEN "recv" ELSE it.pc]
                  /\ kcur' = [kcur EXCEPT ![k] =
                       IF it.pc = "next" THEN NoFrame ELSE frame]
                  /\ kidx' = [kidx EXCEPT ![k] = it.idx]
                  /\ klen' = [klen EXCEPT ![k] =
                       IF it.pc = "next" THEN 0 ELSE Len(dumpling_eaters)]
                  /\ ktgt' = [ktgt EXCEPT ![k] = it.tgt]
                  /\ UNCHANGED log_errors
    /\ UNCHANGED <<dumpling_kitchens, dumpling_eaters, kmeta, emeta, queue,
                   dumplings_out, evars, svars, estream, enqueued,
                   announced, offhub>>

\* Lines 162-166: the producer closed its stream; recv raises
\* ConnectionClosed and the kitchen is removed.
GrabClosed(k) ==
    /\ kpc[k] = "recv"
    /\ TotalClose < MaxClose
    /\ LoopFree
    /\ dumpling_kitchens' = Remove(dumpling_kitchens, k)
    /\ kpc' = [kpc EXCEPT ![k] = "done"]
    /\ UNCHANGED <<dumpling_eaters, kmeta, emeta, queue, dumplings_in,
                   dumplings_out, log_errors, kcur, kidx, klen, ktgt, evars,
                   svars, estream, history, offhub>>

\* asyncio.Queue.put (put_nowait appends at the tail).
\* (variant: a LIFO queue)
QueuePut_AtHead(q, item) == <<item>> \o q
QueuePut(q, item) == Append(q, item)

\* Lines 158-161: one put of the fan-out, and the loop's next step.
GrabPut(k) ==
    /\ kpc[k] = "fanout"
    /\ ~Full(queue[ktgt[k]])
    /\ FanoutReady \subseteq {k}
    /\ queue' = [queue EXCEPT ![ktgt[k]] = QueuePut(@, kcur[k])]
    /\ enqueued' = [enqueued EXCEPT ![ktgt[k]] = Append(@, kcur[k])]
    /\ LET it == IterNext(kidx[k], klen[k])
       IN /\ kpc' = [kpc EXCEPT ![k] =
                       IF it.pc = "next" THEN "recv" ELSE it.pc]
          /\ kidx' = [kidx EXCEPT ![k] = it.idx]
          /\ ktgt' = [ktgt EXCEPT ![k] = it.tgt]
          /\ kcur' = [kcur EXCEPT ![k] =
                        IF it.pc = "fanout" THEN @ ELSE NoFrame]
          /\ klen' = [klen EXCEPT ![k] = IF it.pc = "fanout" THEN @ ELSE 0]
    /\ UNCHANGED <<dumpling_kitchens, dumpling_eaters, kmeta, emeta,
                   dumplings_in, dumplings_out, log_errors,
                   evars, svars, estream, received, admitted,
                   kfirst, announced, offhub>>

\* ------------------------------------------------------ _emit_dumplings
\* Lines 178-205: a consumer connects and its first frame arrives;
\* allocate the queue, record the eater, look up its name.  Nothing here is
\* inside the try block.  Connections are numbered in the order they are
\* accepted.
EmitIdentity(e, text, st) ==
    /\ rpc = "serving"
    /\ epc[e] = "idle"
    /\ \A j \in Eaters : j < e => epc[j] # "idle"
    /\ LoopFree
    /\ LET loaded == JsonLoads(text)
           name == IF loaded.exc = None
                   THEN Subscript(loaded.val, "eater_name")
                   ELSE loaded
       IN /\ IF loaded.exc # None
             THEN UNCHANGED <<dumpling_eaters, emeta>>
             ELSE /\ dumpling_eaters' = Append(dumpling_eaters, e)
                  /\ emeta' = [emeta EXCEPT ![e] =
                       Metadata("info_from_eater", loaded.val, e)]
          /\ epc' = [epc EXCEPT ![e] =
                       IF name.exc = None THEN "get" ELSE "dead"]
    /\ eopen' = [eopen EXCEPT ![e] = TRUE]
    /\ stalled' = [stalled EXCEPT ![e] = st]
    /\ UNCHANGED <<dumpling_kitchens, kmeta, queue, dumplings_in,
                   dumplings_out, log_errors, kvars, ecur, svars, esent,
                   history, offhub>>

\* (variant: the frame is read but left in the queue)
EmitGet_Peek(e) ==
    /\ epc[e] = "get"
    /\ LoopFree
    /\ queue[e] # <<>>
    /\ LET frame == Head(queue[e])
           loaded == JsonLoads(frame.text)
           md == IF loaded.exc = None
                 THEN Subscript(loaded.val, "metadata") ELSE loaded
           chef == IF md.exc = None THEN Subscript(md.val, "chef") ELSE md
       IN /\ queue' = queue
          /\ ecur' = [ecur EXCEPT ![e] = frame]
          /\ epc' = [epc EXCEPT ![e] =
                       IF chef.exc = None THEN "send" ELSE "dead"]
    /\ UNCHANGED <<dumpling_kitchens, dumpling_eaters, kmeta, emeta,
                   dumplings_in, dumplings_out, log_errors, kvars, svars,
                   estream, history, offhub>>

\* Lines 209-215: take the oldest frame of the queue and parse it for the
\* log line.
EmitGet(e) ==
    /\ epc[e] = "get"
    /\ LoopFree
    /\ queue[e] # <<>>
    /\ LET frame == Head(queue[e])
           loaded == JsonLoads(frame.text)
           md == IF loaded.exc = None
                 THEN Subscript(loaded.val, "metadata") ELSE loaded
           chef == IF md.exc = None THEN Subscript(md.val, "chef") ELSE md
       IN /\ queue' = [queue EXCEPT ![e] = Tail(@)]
          /\ ecur' = [ecur EXCEPT ![e] = frame]
          /\ epc' = [epc EXCEPT ![e] =
                       IF chef.exc = None THEN "send" ELSE "dead"]
    /\ UNCHANGED <<dumpling_kitchens, dumpling_eaters, kmeta, emeta,
                   dumplings_in, dumplings_out, log_errors, kvars, svars,
                   estream, history, offhub>>

\* Line 218: dumplings_out counts a frame once websocket.send returned.
\* (variant: counted at the dequeue and again at the send)
CountOut_Twice(n) == n + 2
CountOut(n) == n + 1

\* Line 217: websocket.send(dumpling) writes the string taken from the
\* queue, not the dumpling_obj parsed from it.
\* (variant: the parsed document is encoded again)
Relayed_Reencoded(frame) ==
    [frame EXCEPT !.text = Text(JsonLoads(frame.text).val)]
Relayed(frame) == frame

\* Lines 217-223: the write completes when the consumer accepts it; on a
\* closed stream send raises ConnectionClosed and the eater is removed.
EmitSend(e) ==
    /\ epc[e] = "send"
    /\ LoopFree
    /\ IF eopen[e]
       THEN /\ ~stalled[e]
            /\ esent' = [esent EXCEPT ![e] = Append(@, Relayed(ecur[e]))]
            /\ dumplings_out' = CountOut(dumplings_out)
            /\ epc' = [epc EXCEPT ![e] = "get"]
            /\ UNCHANGED dumpling_eaters
       ELSE /\ dumpling_eaters' = Remove(dumpling_eaters, e)
            /\ epc' = [epc EXCEPT ![e] = "done"]
            /\ UNCHANGED <<esent, dumplings_out>>
    /\ ecur' = [ecur EXCEPT ![e] = NoFrame]
    /\ UNCHANGED <<dumpling_kitchens, kmeta, emeta, queue, dumplings_in,
                   log_errors, kvars, svars, eopen, stalled, history,
                   offhub>>

\* ---------------------------------------------- _announce_system_status
\* Seconds since the hub started: the synthesizer's sleeps.
Uptime == nstatus * HUB_STATUS_FREQ

\* [table[key]['metadata'] for key in table]
MetaList(keys, meta) == JList([i \in DOMAIN keys |-> meta[keys[i]]])

\* (variant: the two counts exchanged)
_get_system_status_CountsSwapped ==
    JObj([total_dumplings_in |-> JNum(dumplings_in),
          total_dumplings_out |-> JNum(dumplings_out),
          server_uptime |-> JNum(Uptime),
          dumpling_kitchen_count |-> JNum(Len(dumpling_eaters)),
          dumpling_eater_count |-> JNum(Len(dumpling_kitchens)),
          dumpling_kitchens |-> MetaList(dumpling_kitchens, kmeta),
          dumpling_eaters |-> MetaList(dumpling_eaters, emeta)])

_get_system_status ==
    JObj([total_dumplings_in |-> JNum(dumplings_in),
          total_dumplings_out |-> JNum(dumplings_out),
          server_uptime |-> JNum(Uptime),
          dumpling_kitchen_count |-> JNum(Len(dumpling_kitchens)),
          dumpling_eater_count |-> JNum(Len(dumpling_eaters)),
          dumpling_kitchens |-> MetaList(dumpling_kitchens, kmeta),
          dumpling_eaters |-> MetaList(dumpling_eaters, emeta)])

\* Lines 234-238.
\* (variant: built with DumplingDriver.packet)
StatusDumplingJson_PacketDriver ==
    to_json(DumplingInit(JStr("SystemStatusChef"), "packet",
                         JNum(Uptime), _get_system_status)).val

StatusDumplingJson ==
    to_json(DumplingInit(JStr("SystemStatusChef"), "interval",
                         JNum(Uptime), _get_system_status)).val

\* Lines 231-245, one round up to the first put: after the sleep (or at
\* start) build the status dumpling and enter the fan-out.  A run takes
\* at most the given number of rounds and of frames.
StatusRound(rounds, frames) ==
    /\ status_task
    /\ spc \in {"start", "sleep"}
    /\ LoopFree
    /\ nstatus < rounds
    /\ TotalSent < frames
    /\ LET it == IterNext(0, Len(dumpling_eaters))
       IN /\ nstatus' = nstatus + 1
          /\ scur' = IF it.pc = "next" THEN NoFrame
                      ELSE Frame(Hub, nstatus + 1, StatusDumplingJson)
          /\ spc' = IF it.pc = "next" THEN "sleep" ELSE it.pc
          /\ sidx' = it.idx
          /\ slen' = IF it.pc = "next" THEN 0 ELSE Len(dumpling_eaters)
          /\ stgt' = it.tgt
          /\ announced' = announced \cup
                {[f |-> Frame(Hub, nstatus + 1, StatusDumplingJson),
                  regs |-> Range(dumpling_eaters)]}
    /\ UNCHANGED <<hubvars, kvars, evars, estream, received, admitted,
                   enqueued, kfirst, offhub>>

\* Lines 240-243: one put of the status fan-out, and the loop's next step.
StatusPut ==
    /\ spc = "fanout"
    /\ ~Full(queue[stgt])
    /\ FanoutReady \subseteq {Hub}
    /\ queue' = [queue EXCEPT ![stgt] = QueuePut(@, scur)]
    /\ enqueued' = [enqueued EXCEPT ![stgt] = Append(@, scur)]
    /\ LET it == IterNext(sidx, slen)
       IN /\ spc' = IF it.pc = "next" THEN "sleep" ELSE it.pc
          /\ sidx' = it.idx
          /\ stgt' = it.tgt
          /\ scur' = IF it.pc = "fanout" THEN scur ELSE NoFrame
          /\ slen' = IF it.pc = "fanout" THEN slen ELSE 0
    /\ UNCHANGED <<dumpling_kitchens, dumpling_eaters, kmeta, emeta,
                   dumplings_in, dumplings_out, log_errors, kvars, evars,
                   nstatus, estream, received,
                   admitted, kfirst, announced, offhub>>

\* ------------------------------------------------------------- the hub
\* Lines 257-269: run() binds the ingress port and then the egress port;
\* an OSError of either becomes NetDumplingsError.
\* (variant: only the ingress bind is inside the try)
RunBind_IngressOnly(in_ok, out_ok) ==
    IF ~in_ok THEN [bound |-> <<>>, exc |-> "NetDumplingsError"]
    ELSE IF ~out_ok THEN [bound |-> <<"in">>, exc |-> None]
    ELSE [bound |-> <<"in", "out">>, exc |-> None]

RunBind(in_ok, out_ok) ==
    IF ~in_ok THEN [bound |-> <<>>, exc |-> "NetDumplingsError"]
    ELSE IF ~out_ok THEN [bound |-> <<"in">>, exc |-> "NetDumplingsError"]
    ELSE [bound |-> <<"in", "out">>, exc |-> None]

\* hub_cli: build the hub and call run().  run() binds, schedules the
\* status task and serves; NetDumplingsError out of run() is printed and
\* the command exits with 1.
hub_cli(in_ok, out_ok) ==
    /\ rpc = "new"
    /\ LET b == RunBind(in_ok, out_ok)
       IN /\ bound' = b.bound
          /\ run_exc' = b.exc
          /\ IF b.exc = None
             THEN /\ status_task' = TRUE
                  /\ rpc' = "serving"
                  /\ UNCHANGED exit_codes
             ELSE /\ exit_codes' = Append(exit_codes, 1)
                  /\ rpc' = "exited"
                  /\ UNCHANGED status_task
    /\ UNCHANGED <<closed_with, cancelled>>
    /\ UNCHANGED <<hubstate, codecvars, kitchenvars, eatervars, uplinkvars,
                   chefvars, supervars>>

\* Lines 281-293: KeyboardInterrupt leaves run_forever.  run() logs a
\* warning, calls close() and wait_closed() on the two servers and
\* status_task.set_result(None); it calls cancel() on no task and
\* websocket.close on no stream.  Server.close of websockets closes the
\* open connections with 1001 (going away).  set_result on a Task is
\* accepted by the interpreters the package names (3.5, 3.6) and raises
\* RuntimeError from 3.8 on.  The loop is stopped: no task runs again.
Stopped(pc) == [c \in DOMAIN pc |-> IF pc[c] \in {"idle", "dead", "done"}
                                    THEN pc[c] ELSE "stopped"]
RunInterrupted(set_result_raises) ==
    /\ rpc = "serving"
    /\ LoopFree
    /\ rpc' = "returned"
    /\ run_exc' = IF set_result_raises THEN "RuntimeError" ELSE None
    /\ closed_with' = [c \in Kitchens \cup Eaters |->
                         IF \/ c \in Kitchens /\ kpc[c] = "recv"
                            \/ c \in Eaters /\ epc[c] \in {"get", "send"}
                                             /\ eopen[c]
                         THEN 1001 ELSE 0]
    /\ cancelled' = {}
    /\ kpc' = Stopped(kpc)
    /\ epc' = Stopped(epc)
    /\ spc' = "stopped"
    /\ eopen' = [e \in Eaters |-> FALSE]
    /\ UNCHANGED <<hubvars, kcur, kidx, klen, ktgt, ecur, scur, sidx, slen,
                   stgt, nstatus, stalled, esent, history>>
    /\ UNCHANGED <<bound, exit_codes, status_task>>
    /\ UNCHANGED <<codecvars, kitchenvars, eatervars, uplinkvars, chefvars,
                   supervars>>

Next ==
    \/ \E in_ok \in BOOLEAN, out_ok \in BOOLEAN : hub_cli(in_ok, out_ok)
    \/ \E k \in Kitchens, t \in KitchenFirstTexts : GrabIdentity(k, t)
    \/ \E k \in Kitchens, t \in DumplingTexts : GrabRecv(k, t)
    \/ \E k \in Kitchens : GrabClosed(k)
    \/ \E k \in Kitchens : GrabPut(k)
    \/ \E e \in Eaters, t \in EaterFirstTexts, st \in BOOLEAN :
          EmitIdentity(e, t, st)
    \/ \E e \in Eaters : EaterClose(e)
    \/ \E e \in Eaters : EmitGet(e)
    \/ \E e \in Eaters : EmitSend(e)
    \/ StatusRound(MaxStatus, MaxSend)
    \/ StatusPut

Spec == Init /\ [][Next]_vars

\* The event loop runs every task that is ready: a fan-out goes on, a
\* queued frame is taken, a write completes once the consumer accepts it.
\* Frames arriving, peers connecting or closing and the timer are not in
\* the hub's hands.
Fairness ==
    /\ \A k \in Kitchens : WF_vars(GrabPut(k))
    /\ WF_vars(StatusPut)
    /\ \A e \in Eaters : WF_vars(EmitGet(e))
    /\ \A e \in Eaters : WF_vars(EmitSend(e))

FairSpec == Init /\ [][Next]_vars /\ Fairness

\* The hub with consumers only: the status synthesizer is the one source
\* of frames and runs more rounds.
StatusNext ==
    \/ \E in_ok \in BOOLEAN, out_ok \in BOOLEAN : hub_cli(in_ok, out_ok)
    \/ \E e \in Eaters, t \in EaterFirstTexts, st \in BOOLEAN :
          EmitIdentity(e, t, st)
    \/ \E e \in Eaters : EaterClose(e)
    \/ \E e \in Eaters : EmitGet(e)
    \/ \E e \in Eaters : EmitSend(e)
    \/ StatusRound(MaxRounds, MaxRounds)
    \/ StatusPut

StatusSpec == Init /\ [][StatusNext]_vars

\* The hub with its connections and the interrupt, no frames.
ShutdownNext ==
    \/ \E in_ok \in BOOLEAN, out_ok \in BOOLEAN : hub_cli(in_ok, out_ok)
    \/ \E k \in Kitchens, t \in KitchenFirstTexts : GrabIdentity(k, t)
    \/ \E k \in Kitchens : GrabClosed(k)
    \/ \E e \in Eaters, t \in EaterFirstTexts, st \in BOOLEAN :
          EmitIdentity(e, t, st)
    \/ \E e \in Eaters : EaterClose(e)
    \/ StatusRound(MaxStatus, MaxSend)
    \/ StatusPut
    \/ \E e \in Eaters : EmitGet(e)
    \/ \E set_result_raises \in BOOLEAN : RunInterrupted(set_result_raises)

ShutdownSpec == Init /\ [][ShutdownNext]_vars

\* ------------------------------------------------------- codec harness
\* validate_dumpling, Dumpling.from_json and Dumpling.to_json applied to
\* every text of CodecInputs and every dumpling of BuiltDumplings.
CodecInit ==
    /\ HubInit
    /\ KitchenInit
    /\ EaterIdle
    /\ UplinkIdle
    /\ ChefIdle
    /\ SuperIdle
    /\ cin \in CodecInputs
    /\ cdump \in BuiltDumplings
    /\ cpc = "start"
    /\ cout = Raise(None)

CodecValidate ==
    /\ cpc = "start"
    /\ cpc' = "validated"
    /\ cout' = validate_dumpling(cin)
    /\ UNCHANGED <<hubstate, runvars, uplinkvars, chefvars, supervars,
                   kitchenvars, eatervars, cin, cdump>>

CodecFromJson ==
    /\ cpc = "start"
    /\ cpc' = "decoded"
    /\ cout' = from_json(cin)
    /\ UNCHANGED <<hubstate, runvars, uplinkvars, chefvars, supervars,
                   kitchenvars, eatervars, cin, cdump>>

\* Dumpling.from_json(d.to_json()) for a dumpling d decoded from cin.
CodecReencode ==
    /\ cpc = "decoded"
    /\ cout.exc = None
    /\ cpc' = "reencoded"
    /\ cout' = LET text == to_json(cout.val) IN
               IF text.exc # None THEN text ELSE from_json(text.val)
    /\ UNCHANGED <<hubstate, runvars, uplinkvars, chefvars, supervars,
                   kitchenvars, eatervars, cin, cdump>>

\* Dumpling.from_json(d.to_json()) for the built dumpling d = cdump.
CodecEncodeDecode ==
    /\ cpc = "start"
    /\ cpc' = "redecoded"
    /\ cout' = LET text == to_json(cdump) IN
               IF text.exc # None THEN text ELSE from_json(text.val)
    /\ UNCHANGED <<hubstate, runvars, uplinkvars, chefvars, supervars,
                   kitchenvars, eatervars, cin, cdump>>

CodecNext ==
    CodecValidate \/ CodecFromJson \/ CodecReencode \/ CodecEncodeDecode

CodecSpec == CodecInit /\ [][CodecNext]_vars

\* ------------------------------------------------------ DumplingKitchen
Chefs == 1..NC
ChefName(c) == CASE c = 1 -> "ChefA" [] c = 2 -> "ChefB" [] OTHER -> "ChefC"
TheKitchenName == "K"
TheChef(c) == ChefObject(ChefName(c), KitchenObject(TheKitchenName))

\* What a handler returns: None, a JSON payload (0 is falsy), or a value
\* json.dumps cannot encode.
HandlerReturns == {JNull, JNum(0), PyObject}

\* The driver a thread gives its dumplings, and the packets or ticks it
\* takes in a run.
Driver(t) == IF t = "sniff" THEN "packet" ELSE "interval"
Budget(t) == IF t = "sniff" THEN MaxPackets ELSE MaxTicks
KitchenClock == tn["sniff"] + tn["poke"]
\* chef_poke_interval: seconds between pokes, or None.
PokeIntervals == {JNum(5), JNull}

\* register_chef, before run().
RegisterChef(c) ==
    /\ ~started
    /\ c \notin Range(chefs)
    /\ chefs' = Append(chefs, c)
    /\ UNCHANGED <<dumpling_queue, log_exceptions, started, tpc, tidx, tn,
                   tcalls, puts>>
    /\ UNCHANGED chef_poke_interval
    /\ UNCHANGED <<hubstate, runvars, uplinkvars, chefvars, supervars,
                   codecvars, eatervars>>

\* if self.chef_poke_interval is not None
\* (variant: the poke thread is started whatever the interval)
PokeStarted_Always(interval) == TRUE
PokeStarted(interval) == interval # JNull

\* DumplingKitchen(chef_poke_interval=interval) and run(): start the poke
\* thread unless chef_poke_interval is None, then sniff.
KitchenRun(interval) ==
    /\ ~started
    /\ started' = TRUE
    /\ chef_poke_interval' = interval
    /\ tpc' = [t \in Threads |->
                 IF t = "sniff" \/ PokeStarted(interval)
                 THEN "wait" ELSE "off"]
    /\ UNCHANGED <<chefs, dumpling_queue, log_exceptions, tidx, tn, tcalls,
                   puts>>
    /\ UNCHANGED <<hubstate, runvars, uplinkvars, chefvars, supervars,
                   codecvars, eatervars>>

\* A packet is captured and _process_packet begins, or the sleep of
\* _poke_chefs ends (the first tick comes without a sleep) and the chef
\* loop begins.
Dispatch(t) ==
    /\ tpc[t] = "wait"
    /\ tn[t] < Budget(t)
    /\ tn' = [tn EXCEPT ![t] = @ + 1]
    /\ tcalls' = [tcalls EXCEPT ![t] = <<>>]
    /\ IF chefs = <<>>
       THEN UNCHANGED <<tpc, tidx>>
       ELSE /\ tpc' = [tpc EXCEPT ![t] = "loop"]
            /\ tidx' = [tidx EXCEPT ![t] = 1]
    /\ UNCHANGED <<chefs, dumpling_queue, log_exceptions, started, puts>>
    /\ UNCHANGED chef_poke_interval
    /\ UNCHANGED <<hubstate, runvars, uplinkvars, chefvars, supervars,
                   codecvars, eatervars>>

\* chef.packet_handler(packet) / chef.interval_handler(interval=...) is
\* called.
HandlerBegin(t) ==
    /\ tpc[t] = "loop"
    /\ tpc' = [tpc EXCEPT ![t] = "handler"]
    /\ UNCHANGED <<chefs, dumpling_queue, log_exceptions, started, tidx, tn,
                   tcalls, puts>>
    /\ UNCHANGED chef_poke_interval
    /\ UNCHANGED <<hubstate, runvars, uplinkvars, chefvars, supervars,
                   codecvars, eatervars>>

\* The for loop's next step: the next chef, or the loop is over.
NextChef(t) ==
    IF tidx[t] < Len(chefs)
    THEN [pc |-> "loop", idx |-> tidx[t] + 1]
    ELSE [pc |-> "wait", idx |-> 0]

\* except Exception: log, continue.
\* (variant: break instead of continue)
ExceptContinue_Break(next) == [pc |-> "wait", idx |-> 0]
ExceptContinue(next) == next

\* The handler raises.
HandlerRaise(t) ==
    /\ tpc[t] = "handler"
    /\ LET next == ExceptContinue(NextChef(t)) IN
       /\ tpc' = [tpc EXCEPT ![t] = next.pc]
       /\ tidx' = [tidx EXCEPT ![t] = next.idx]
    /\ log_exceptions' = log_exceptions + 1
    /\ tcalls' = [tcalls EXCEPT ![t] =
                    Append(@, [chef |-> chefs[tidx[t]], raised |-> TRUE,
                               payload |-> JNull])]
    /\ UNCHANGED <<chefs, dumpling_queue, started, tn, puts>>
    /\ UNCHANGED chef_poke_interval
    /\ UNCHANGED <<hubstate, runvars, uplinkvars, chefvars, supervars,
                   codecvars, eatervars>>

\* if payload is not None
\* (variant: if payload)
ShouldPut_Truthy(payload) ==
    payload.t = "pyobject" \/ Truthy(KitchenValue(payload))
ShouldPut(payload) == payload # JNull

\* _put_dumpling_on_queue up to the put: the encoded dumpling, or the
\* exception of to_json.
EncodedDumpling(c, payload, driver) ==
    to_json(DumplingInit(TheChef(c), driver, JNum(KitchenClock), payload))

\* The handler returns payload.  _put_dumpling_on_queue is called outside
\* the try block: an exception of to_json leaves _process_packet (and
\* sniff) or _poke_chefs, and the thread is over.
HandlerReturn(t, payload) ==
    /\ tpc[t] = "handler"
    /\ LET c == chefs[tidx[t]]
           encoded == EncodedDumpling(c, payload, Driver(t))
           next == NextChef(t) IN
       /\ tcalls' = [tcalls EXCEPT ![t] =
                       Append(@, [chef |-> c, raised |-> FALSE,
                                  payload |-> payload])]
       /\ IF ~ShouldPut(payload)
          THEN /\ tpc' = [tpc EXCEPT ![t] = next.pc]
               /\ tidx' = [tidx EXCEPT ![t] = next.idx]
               /\ UNCHANGED <<dumpling_queue, puts>>
          ELSE IF encoded.exc # None
          THEN /\ tpc' = [tpc EXCEPT ![t] = "dead"]
               /\ tidx' = [tidx EXCEPT ![t] = 0]
               /\ UNCHANGED <<dumpling_queue, puts>>
          ELSE /\ dumpling_queue' = Append(dumpling_queue, encoded.val)
               /\ puts' = Append(puts, [thread |-> t, n |-> tn[t],
                                        chef |-> c])
               /\ tpc' = [tpc EXCEPT ![t] = next.pc]
               /\ tidx' = [tidx EXCEPT ![t] = next.idx]
    /\ UNCHANGED <<chefs, log_exceptions, started, tn>>
    /\ UNCHANGED chef_poke_interval
    /\ UNCHANGED <<hubstate, runvars, uplinkvars, chefvars, supervars,
                   codecvars, eatervars>>

KitchenNext ==
    \/ \E c \in Chefs : RegisterChef(c)
    \/ \E interval \in PokeIntervals : KitchenRun(interval)
    \/ \E t \in Threads : Dispatch(t)
    \/ \E t \in Threads : HandlerBegin(t)
    \/ \E t \in Threads : HandlerRaise(t)
    \/ \E t \in Threads, payload \in HandlerReturns : HandlerReturn(t, payload)

KitchenSpec == Init /\ [][KitchenNext]_vars

\* -------------------------------------------------------- DumplingEater
CONN_CANCELLED == 4101
EATER_FULL == 4102

\* What may be given as a hook: nothing (None), a coroutine function, or
\* something that is not callable, a non-empty str (truthy) or 0 (falsy).
Hooks == {None, "callable", "str", "zero"}
HasCall(hook) == hook = "callable"
HookTruthy(hook) == hook \in {"callable", "str"}

\* self.chefs: None or a list of chef names.
ChefFilters == {JNull, JList(<<JStr("ChefA")>>), JList(<<>>)}
\* dumpling_count: None or a number.
DumplingCounts == {JNull} \cup {JNum(n) : n \in 0..MaxCount}

OtherChefText ==
    Text(JObj([metadata |-> JObj([chef |-> JStr("ChefB"),
                                  kitchen |-> JStr("K"),
                                  creation_time |-> JNum(1),
                                  driver |-> JStr("interval")]),
               payload |-> JNull]))
\* What the hub's consumer stream may carry to the eater.
OtherDriverText ==
    Text(JObj([metadata |-> JObj([chef |-> JStr("ChefA"),
                                  kitchen |-> JStr("K"),
                                  creation_time |-> JNum(1),
                                  driver |-> JStr("bogus")]),
               payload |-> JNull]))
EaterFrames == {GoodDumplingText, OtherChefText, OtherDriverText, NoChefText,
                NullText, NotJsonText}

\* "self.chefs is None or dumpling_chef in self.chefs"
\* (variant: every chef is wanted)
ChefWanted_Always(filter, dumpling_chef) == TRUE

ChefWanted(filter, dumpling_chef) ==
    \/ filter = JNull
    \/ \E i \in DOMAIN filter.v : filter.v[i] = dumpling_chef

\* "dumpling_count is not None and dumplings_eaten >= dumpling_count"
\* (variant: one dumpling more than the limit)
LimitReached_After(eaten, count) == count # JNull /\ eaten > count.n

LimitReached(eaten, count) == count # JNull /\ eaten >= count.n

HookCall(hook, arg) == [hook |-> hook, arg |-> arg]

\* DumplingEater(name, shifty, chefs=..., on_connect=..., on_dumpling=...,
\* on_connection_lost=...): the arguments are stored as given.
EaterNew(oc, od, ol, filter) ==
    /\ gpc = "new"
    /\ on_connect' = oc
    /\ on_dumpling' = od
    /\ on_connection_lost' = ol
    /\ eater_chefs' = filter
    /\ gpc' = "built"
    /\ UNCHANGED <<dumpling_count, was_connected, dumplings_eaten, ws_out,
                   ws_in, ws_close, hook_calls, eater_log, eater_exc>>
    /\ UNCHANGED <<hubstate, runvars, uplinkvars, chefvars, supervars,
                   codecvars, kitchenvars, ws_events>>

\* run(dumpling_count): only on_dumpling is looked at before the task is
\* created.
EaterRun(count) ==
    /\ gpc = "built"
    /\ dumpling_count' = count
    /\ IF ~HasCall(on_dumpling)
       THEN /\ eater_log' = Append(eater_log, "error")
            /\ gpc' = "returned"
       ELSE /\ UNCHANGED eater_log
            /\ gpc' = "connect"
    /\ UNCHANGED <<on_connect, on_dumpling, on_connection_lost, eater_chefs,
                   was_connected, dumplings_eaten, ws_out, ws_in, ws_close,
                   hook_calls, eater_exc>>
    /\ UNCHANGED <<hubstate, runvars, uplinkvars, chefvars, supervars,
                   codecvars, kitchenvars, ws_events>>

\* websockets.client.connect raises OSError: run() logs two warnings.
EaterConnectRefused ==
    /\ gpc = "connect"
    /\ eater_log' = Append(Append(eater_log, "warning"), "warning")
    /\ gpc' = "done"
    /\ UNCHANGED <<on_connect, on_dumpling, on_connection_lost, eater_chefs,
                   dumpling_count, was_connected, dumplings_eaten, ws_out,
                   ws_in, ws_close, hook_calls, eater_exc>>
    /\ UNCHANGED <<hubstate, runvars, uplinkvars, chefvars, supervars,
                   codecvars, kitchenvars, ws_events>>

\* The connection is made, the identity frame sent, and then
\* "if self.on_connect: await self.on_connect(...)".  Calling something
\* that is not callable raises TypeError, which no handler of
\* _grab_dumplings or run() catches.
EaterConnect ==
    /\ gpc = "connect"
    /\ was_connected' = TRUE
    /\ ws_out' = Append(ws_out, EaterIdentityText)
    /\ IF ~HookTruthy(on_connect)
       THEN /\ gpc' = "recv"
            /\ UNCHANGED <<hook_calls, eater_exc>>
       ELSE IF HasCall(on_connect)
       THEN /\ hook_calls' = Append(hook_calls, HookCall("on_connect", JNull))
            /\ gpc' = "in_on_connect"
            /\ UNCHANGED eater_exc
       ELSE /\ eater_exc' = "TypeError"
            /\ gpc' = "done"
            /\ UNCHANGED hook_calls
    /\ UNCHANGED <<on_connect, on_dumpling, on_connection_lost, eater_chefs,
                   dumpling_count, dumplings_eaten, ws_in, ws_close,
                   eater_log>>
    /\ UNCHANGED <<hubstate, runvars, uplinkvars, chefvars, supervars,
                   codecvars, kitchenvars, ws_events>>

\* on_connect returns: on to the receive loop.
EaterConnectReturn ==
    /\ gpc = "in_on_connect"
    /\ gpc' = "recv"
    /\ UNCHANGED <<on_connect, on_dumpling, on_connection_lost, eater_chefs,
                   dumpling_count, was_connected, dumplings_eaten, ws_out,
                   ws_in, ws_close, hook_calls, eater_log, eater_exc>>
    /\ UNCHANGED <<hubstate, runvars, uplinkvars, chefvars, supervars,
                   codecvars, kitchenvars, ws_events>>

\* "if dumpling_count is not None and dumplings_eaten >= dumpling_count:
\* await websocket.close(*ND_CLOSE_MSGS['eater_full']); break"
Threshold(eaten) ==
    IF LimitReached(eaten, dumpling_count)
    THEN /\ ws_close' = Append(ws_close, EATER_FULL)
         /\ gpc' = "done"
    ELSE /\ UNCHANGED ws_close
         /\ gpc' = "recv"

\* One turn of the receive loop up to its next await: recv returns a
\* frame, validate_dumpling, the chef filter, and either the call of
\* on_dumpling or the threshold test.  An invalid dumpling is logged and
\* "continue" skips the threshold test.
EaterRecv(text) ==
    /\ gpc = "recv"
    /\ Len(ws_in) < MaxFrames
    /\ ws_in' = Append(ws_in, text)
    /\ LET dumpling == validate_dumpling(text) IN
       IF dumpling.exc = "InvalidDumpling"
       THEN /\ eater_log' = Append(eater_log, "error")
            /\ UNCHANGED <<gpc, dumplings_eaten, hook_calls, ws_close,
                           eater_exc>>
       ELSE IF dumpling.exc # None
       THEN /\ eater_exc' = dumpling.exc
            /\ gpc' = "done"
            /\ UNCHANGED <<dumplings_eaten, hook_calls, ws_close, eater_log>>
       ELSE IF ChefWanted(eater_chefs, dumpling.val.m.metadata.m.chef)
       THEN /\ dumplings_eaten' = dumplings_eaten + 1
            /\ hook_calls' =
                   Append(hook_calls, HookCall("on_dumpling", dumpling.val))
            /\ gpc' = "in_on_dumpling"
            /\ UNCHANGED <<ws_close, eater_log, eater_exc>>
       ELSE /\ Threshold(dumplings_eaten)
            /\ UNCHANGED <<dumplings_eaten, hook_calls, eater_log, eater_exc>>
    /\ UNCHANGED <<on_connect, on_dumpling, on_connection_lost, eater_chefs,
                   dumpling_count, was_connected, ws_out>>
    /\ UNCHANGED <<hubstate, runvars, uplinkvars, chefvars, supervars,
                   codecvars, kitchenvars, ws_events>>

\* on_dumpling returns: the threshold test.
EaterDumplingReturn ==
    /\ gpc = "in_on_dumpling"
    /\ Threshold(dumplings_eaten)
    /\ UNCHANGED <<on_connect, on_dumpling, on_connection_lost, eater_chefs,
                   dumpling_count, was_connected, dumplings_eaten, ws_out,
                   ws_in, hook_calls, eater_log, eater_exc>>
    /\ UNCHANGED <<hubstate, runvars, uplinkvars, chefvars, supervars,
                   codecvars, kitchenvars, ws_events>>

\* recv raises ConnectionClosed: a warning, and
\* "if self.on_connection_lost: await self.on_connection_lost(e)".
EaterLost ==
    /\ gpc = "recv"
    /\ ws_events' = Append(ws_events, "ConnectionClosed")
    /\ eater_log' = Append(eater_log, "warning")
    /\ IF ~HookTruthy(on_connection_lost)
       THEN /\ gpc' = "done"
            /\ UNCHANGED <<hook_calls, eater_exc>>
       ELSE IF HasCall(on_connection_lost)
       THEN /\ hook_calls' =
                   Append(hook_calls, HookCall("on_connection_lost",
                                              JStr("ConnectionClosed")))
            /\ gpc' = "in_on_connection_lost"
            /\ UNCHANGED eater_exc
       ELSE /\ eater_exc' = "TypeError"
            /\ gpc' = "done"
            /\ UNCHANGED hook_calls
    /\ UNCHANGED <<on_connect, on_dumpling, on_connection_lost, eater_chefs,
                   dumpling_count, was_connected, dumplings_eaten, ws_out,
                   ws_in, ws_close>>
    /\ UNCHANGED <<hubstate, runvars, uplinkvars, chefvars, supervars,
                   codecvars, kitchenvars>>

\* on_connection_lost returns: _grab_dumplings ends.
EaterLostReturn ==
    /\ gpc = "in_on_connection_lost"
    /\ gpc' = "done"
    /\ UNCHANGED <<on_connect, on_dumpling, on_connection_lost, eater_chefs,
                   dumpling_count, was_connected, dumplings_eaten, ws_out,
                   ws_in, ws_close, hook_calls, eater_log, eater_exc>>
    /\ UNCHANGED <<hubstate, runvars, uplinkvars, chefvars, supervars,
                   codecvars, kitchenvars, ws_events>>

\* "try: await websocket.close(...) except InvalidState: pass": what
\* leaves the handler when the close raised InvalidState or did not.
\* (variant: InvalidState is not caught)
ExceptInvalidState_Uncaught(raised) == IF raised THEN "InvalidState" ELSE None
ExceptInvalidState(raised) == None

\* _interrupt_handler cancels the task while it waits inside the try
\* block: a warning, and websocket.close is called with
\* 'conn_cancelled'; the close may raise InvalidState.
EaterCancel(invalid_state) ==
    /\ gpc \in {"in_on_connect", "recv", "in_on_dumpling"}
    /\ eater_log' = Append(eater_log, "warning")
    /\ ws_close' = Append(ws_close, CONN_CANCELLED)
    /\ ws_events' = IF invalid_state
                    THEN ws_events \o <<"CancelledError", "InvalidState">>
                    ELSE Append(ws_events, "CancelledError")
    /\ eater_exc' = ExceptInvalidState(invalid_state)
    /\ gpc' = "done"
    /\ UNCHANGED <<on_connect, on_dumpling, on_connection_lost, eater_chefs,
                   dumpling_count, was_connected, dumplings_eaten, ws_out,
                   ws_in, hook_calls>>
    /\ UNCHANGED <<hubstate, runvars, uplinkvars, chefvars, supervars,
                   codecvars, kitchenvars>>

EaterNext ==
    \/ \E oc \in Hooks, od \in Hooks, ol \in Hooks, filter \in ChefFilters :
           EaterNew(oc, od, ol, filter)
    \/ \E count \in DumplingCounts : EaterRun(count)
    \/ EaterConnectRefused
    \/ EaterConnect
    \/ EaterConnectReturn
    \/ \E text \in EaterFrames : EaterRecv(text)
    \/ EaterDumplingReturn
    \/ EaterLost
    \/ EaterLostReturn
    \/ \E invalid_state \in BOOLEAN : EaterCancel(invalid_state)

EaterSpec == Init /\ [][EaterNext]_vars

\* ============================================================ the uplink
\* console/sniff.py: the dumpling emitter process of nd-sniff. It owns one
\* event loop running one coroutine, send_dumplings_from_queue_to_hub,
\* which reads the multiprocessing queue the kitchen process writes.

\* Dumplings the kitchen process puts on the queue: told apart by their
\* creation time.
UplinkDumpling(n) ==
    Text(JObj([metadata |-> JObj([chef |-> JStr("ChefA"),
                                  kitchen |-> JStr(TheKitchenName),
                                  creation_time |-> JNum(n),
                                  driver |-> JStr("packet")]),
               payload |-> JNum(n)]))

\* json.dumps(kitchen_info)
KitchenInfoText == KitchenIdentityText

UplinkActive == upc \in {"identity", "get", "send"}
UplinkPutCount == Len(up_dequeued) + Len(up_queue)

\* await websocket.send(frame): a closed stream raises ConnectionClosed
\* before anything is written; a cancellation requested since the last
\* suspension is delivered where send suspends; otherwise the frame is
\* written.
SendOutcome ==
    IF ~up_open THEN "ConnectionClosed"
    ELSE IF up_cancel THEN "CancelledError"
    ELSE "sent"

\* (variant: the frame is written ahead of the earlier ones)
UplinkWrite_Front(sent, frame) == <<frame>> \o sent
UplinkWrite(sent, frame) == Append(sent, frame)

\* The kitchen process puts one encoded dumpling on the queue
\* (DumplingKitchen._put_dumpling_on_queue, in another process).
UplinkPut ==
    /\ UplinkPutCount < MaxUp
    /\ up_queue' = Append(up_queue, UplinkDumpling(UplinkPutCount + 1))
    /\ UNCHANGED <<upc, up_cur, up_dequeued, up_sent, up_open, up_cancel,
                   up_close, up_log, up_events>>
    /\ UNCHANGED <<hubstate, runvars, codecvars, kitchenvars, eatervars,
                   chefvars, supervars>>

\* websockets.connect succeeds.
UplinkConnect ==
    /\ upc = "off"
    /\ upc' = "identity"
    /\ up_open' = TRUE
    /\ up_log' = Append(up_log, "info")
    /\ UNCHANGED <<up_queue, up_cur, up_dequeued, up_sent, up_cancel,
                   up_close, up_events>>
    /\ UNCHANGED <<hubstate, runvars, codecvars, kitchenvars, eatervars,
                   chefvars, supervars>>

\* websockets.connect raises OSError: two errors are logged and the
\* coroutine returns.
UplinkConnectRefused ==
    /\ upc = "off"
    /\ upc' = "done"
    /\ up_log' = up_log \o <<"info", "error", "error">>
    /\ up_events' = Append(up_events, "OSError")
    /\ UNCHANGED <<up_queue, up_cur, up_dequeued, up_sent, up_open,
                   up_cancel, up_close>>
    /\ UNCHANGED <<hubstate, runvars, codecvars, kitchenvars, eatervars,
                   chefvars, supervars>>

\* The except clauses of the try block, entered from a send.
\*   CancelledError: a warning, websocket.close with 'conn_cancelled',
\*                   InvalidState of that close is passed over;
\*   ConnectionClosed: a warning.
UplinkExcept(outcome, invalid_state) ==
    /\ upc' = "done"
    /\ up_log' = Append(up_log, "warning")
    /\ up_close' = IF outcome = "CancelledError"
                   THEN Append(up_close, CONN_CANCELLED)
                   ELSE up_close
    /\ up_events' = IF outcome = "CancelledError" /\ invalid_state
                    THEN up_events \o <<outcome, "InvalidState">>
                    ELSE Append(up_events, outcome)
    /\ up_open' = IF outcome = "CancelledError" THEN FALSE ELSE up_open

\* await websocket.send(json.dumps(kitchen_info))
UplinkIdentity(invalid_state) ==
    /\ upc = "identity"
    /\ IF SendOutcome = "sent"
       THEN /\ up_sent' = UplinkWrite(up_sent, KitchenInfoText)
            /\ upc' = "get"
            /\ UNCHANGED <<up_open, up_close, up_log, up_events>>
       ELSE /\ UplinkExcept(SendOutcome, invalid_state)
            /\ UNCHANGED up_sent
    /\ UNCHANGED <<up_queue, up_cur, up_dequeued, up_cancel>>
    /\ UNCHANGED <<hubstate, runvars, codecvars, kitchenvars, eatervars,
                   chefvars, supervars>>

\* dumpling = dumpling_queue.get(): the blocking get of
\* multiprocessing.Queue, called in the coroutine. While the queue is
\* empty the thread of the event loop is inside get(): no other callback
\* of the loop runs, and the coroutine is at no suspension point.
UplinkGet ==
    /\ upc = "get"
    /\ up_queue # <<>>
    /\ up_cur' = Head(up_queue)
    /\ up_queue' = Tail(up_queue)
    /\ up_dequeued' = Append(up_dequeued, Head(up_queue))
    /\ upc' = "send"
    /\ UNCHANGED <<up_sent, up_open, up_cancel, up_close, up_log,
                   up_events>>
    /\ UNCHANGED <<hubstate, runvars, codecvars, kitchenvars, eatervars,
                   chefvars, supervars>>

\* await websocket.send(dumpling)
UplinkSend(invalid_state) ==
    /\ upc = "send"
    /\ IF SendOutcome = "sent"
       THEN /\ up_sent' = UplinkWrite(up_sent, up_cur)
            /\ upc' = "get"
            /\ UNCHANGED <<up_open, up_close, up_log, up_events>>
       ELSE /\ UplinkExcept(SendOutcome, invalid_state)
            /\ UNCHANGED up_sent
    /\ UNCHANGED <<up_queue, up_cur, up_dequeued, up_cancel>>
    /\ UNCHANGED <<hubstate, runvars, codecvars, kitchenvars, eatervars,
                   chefvars, supervars>>

\* The task is cancelled (Task.cancel): the CancelledError is raised in
\* the coroutine at its next suspension.
UplinkCancel ==
    /\ UplinkActive
    /\ ~up_cancel
    /\ up_cancel' = TRUE
    /\ UNCHANGED <<upc, up_queue, up_cur, up_dequeued, up_sent, up_open,
                   up_close, up_log, up_events>>
    /\ UNCHANGED <<hubstate, runvars, codecvars, kitchenvars, eatervars,
                   chefvars, supervars>>

\* The hub closes the stream.
UplinkHubClose ==
    /\ UplinkActive
    /\ up_open
    /\ up_open' = FALSE
    /\ UNCHANGED <<upc, up_queue, up_cur, up_dequeued, up_sent, up_cancel,
                   up_close, up_log, up_events>>
    /\ UNCHANGED <<hubstate, runvars, codecvars, kitchenvars, eatervars,
                   chefvars, supervars>>

UplinkNext ==
    \/ UplinkPut
    \/ UplinkConnect
    \/ UplinkConnectRefused
    \/ \E invalid_state \in BOOLEAN : UplinkIdentity(invalid_state)
    \/ UplinkGet
    \/ \E invalid_state \in BOOLEAN : UplinkSend(invalid_state)
    \/ UplinkCancel
    \/ UplinkHubClose

UplinkSpec == Init /\ [][UplinkNext]_vars

\* The steps of the coroutine are taken when they can be; nothing obliges
\* the kitchen process to produce another dumpling.
UplinkFairness ==
    /\ WF_vars(\E invalid_state \in BOOLEAN : UplinkIdentity(invalid_state))
    /\ WF_vars(UplinkGet)
    /\ WF_vars(\E invalid_state \in BOOLEAN : UplinkSend(invalid_state))

UplinkFairSpec == Init /\ [][UplinkNext]_vars /\ UplinkFairness

\* ====================================================== the bundled chefs
\* dumplingchefs/: PacketCountChef, DNSLookupChef and ARPChef, subclasses
\* of DumplingChef.  Their handlers make dumplings themselves, through
\* DumplingChef.send_dumpling, and return None.
BundledChefs == {"PacketCountChef", "DNSLookupChef", "ARPChef"}
\* The layer a packet is recognised by.
Layers == {"DNS", "ARP", "TCP"}

\* DumplingChef.send_dumpling: Dumpling(chef=self, driver=driver,
\* payload=payload) is built, then called; Dumpling defines no __call__,
\* the call raises TypeError and nothing is put on the queue.
send_dumpling(chef, handler, driver, payload) ==
    [made |-> Append(made, [chef |-> chef, handler |-> handler,
                            driver |-> driver, payload |-> payload]),
     exc |-> "TypeError"]
NoDumpling == [made |-> made, exc |-> None]

\* The driver each interval handler passes to send_dumpling.
IntervalDriver(chef) ==
    IF chef = "PacketCountChef" THEN "packet" ELSE "interval"

\* chef.packet_handler(packet)
\*   PacketCountChef: counts the packet's layers, makes no dumpling;
\*   DNSLookupChef: a dumpling for a packet with a DNS layer;
\*   ARPChef: a dumpling for a packet with an ARP layer.
packet_handler(chef, layer) ==
    /\ chef_calls < MaxHandlerCalls
    /\ chef_calls' = chef_calls + 1
    /\ packet_counts' = IF chef = "PacketCountChef"
                        THEN packet_counts + 1 ELSE packet_counts
    /\ lookups_seen' = IF chef = "DNSLookupChef" /\ layer = "DNS"
                       THEN lookups_seen + 1 ELSE lookups_seen
    /\ LET sent == IF \/ chef = "DNSLookupChef" /\ layer = "DNS"
                      \/ chef = "ARPChef" /\ layer = "ARP"
                   THEN send_dumpling(chef, "packet_handler", "packet",
                                      layer)
                   ELSE NoDumpling
       IN /\ made' = sent.made
          /\ chef_exc' = sent.exc
    /\ UNCHANGED <<hubstate, runvars, uplinkvars, codecvars, kitchenvars,
                   eatervars, supervars>>

\* chef.interval_handler(interval=...)
\*   PacketCountChef: a dumpling with the packet counts;
\*   DNSLookupChef: a dumpling with the lookups seen;
\*   ARPChef: the base class's handler, which does nothing.
interval_handler(chef) ==
    /\ chef_calls < MaxHandlerCalls
    /\ chef_calls' = chef_calls + 1
    /\ LET sent == IF chef = "PacketCountChef"
                   THEN send_dumpling(chef, "interval_handler",
                                      IntervalDriver(chef), packet_counts)
                   ELSE IF chef = "DNSLookupChef"
                   THEN send_dumpling(chef, "interval_handler",
                                      IntervalDriver(chef), lookups_seen)
                   ELSE NoDumpling
       IN /\ made' = sent.made
          /\ chef_exc' = sent.exc
    /\ UNCHANGED <<packet_counts, lookups_seen>>
    /\ UNCHANGED <<hubstate, runvars, uplinkvars, codecvars, kitchenvars,
                   eatervars, supervars>>

ChefNext ==
    \/ \E chef \in BundledChefs, layer \in Layers :
           packet_handler(chef, layer)
    \/ \E chef \in BundledChefs : interval_handler(chef)

ChefSpec == Init /\ [][ChefNext]_vars

\* ================================================ the nd-sniff supervisor

\* sniff_cli runs the sniffer and the dumpling emitter as two OS processes
\* and polls them once a second.  The children run and die on their own:
\* a child can exit between any two statements of the parent.

\* Process.is_alive(): the child was started and has not exited.
is_alive(p) == proc[p] = "running"

\* What sniff_cli learns from one is_alive() call.
Observe(p) == [seen EXCEPT ![p] = IF is_alive(p) THEN "alive" ELSE "dead"]

\* Process.terminate() without the signal.
terminate_NoSignal(p) == proc

\* Process.terminate(): SIGTERM to the child, which neither child handles;
\* a child that has already exited is left as it is.
terminate(p) ==
    [proc EXCEPT ![p] = IF @ = "running" THEN "terminated" ELSE @]

InLoop ==
    sup_pc \in {"cond1", "cond2", "sleep", "else1", "term1", "else2",
                "term2"}

\* sniffer_process.start(); dumpling_emitter_process.start()
SuperStart ==
    /\ sup_pc = "new"
    /\ proc' = [p \in Processes |-> "running"]
    /\ sup_pc' = "cond1"
    /\ UNCHANGED <<terminate_calls, sup_log, sleeps, seen>>
    /\ UNCHANGED <<hubstate, runvars, uplinkvars, codecvars, kitchenvars,
                   eatervars, chefvars>>

\* A child exits by itself: the sniffer on an exception, the emitter when
\* its connection to the hub fails or is closed.
ProcDies(p) ==
    /\ proc[p] = "running"
    /\ proc' = [proc EXCEPT ![p] = "dead"]
    /\ UNCHANGED <<sup_pc, terminate_calls, sup_log, sleeps, seen>>
    /\ UNCHANGED <<hubstate, runvars, uplinkvars, codecvars, kitchenvars,
                   eatervars, chefvars>>

\* if (sniffer_process.is_alive() and ...
SuperCond1 ==
    /\ sup_pc = "cond1"
    /\ seen' = Observe("sniffer")
    /\ sup_pc' = IF is_alive("sniffer") THEN "cond2" ELSE "else1"
    /\ UNCHANGED <<proc, terminate_calls, sup_log, sleeps>>
    /\ UNCHANGED <<hubstate, runvars, uplinkvars, codecvars, kitchenvars,
                   eatervars, chefvars>>

\* ... and dumpling_emitter_process.is_alive()):
SuperCond2 ==
    /\ sup_pc = "cond2"
    /\ seen' = Observe("emitter")
    /\ sup_pc' = IF is_alive("emitter") THEN "sleep" ELSE "else1"
    /\ UNCHANGED <<proc, terminate_calls, sup_log, sleeps>>
    /\ UNCHANGED <<hubstate, runvars, uplinkvars, codecvars, kitchenvars,
                   eatervars, chefvars>>

\* sleep(1), then round the loop again.
SuperSleep ==
    /\ sup_pc = "sleep"
    /\ sleeps < MaxSleeps
    /\ sleeps' = sleeps + 1
    /\ sup_pc' = "cond1"
    /\ UNCHANGED <<proc, terminate_calls, sup_log, seen>>
    /\ UNCHANGED <<hubstate, runvars, uplinkvars, codecvars, kitchenvars,
                   eatervars, chefvars>>

\* else: if sniffer_process.is_alive(): logger.error(emitter died)
SuperElse1 ==
    /\ sup_pc = "else1"
    /\ seen' = Observe("sniffer")
    /\ IF is_alive("sniffer")
       THEN /\ sup_log' = Append(sup_log, "emitter died")
            /\ sup_pc' = "term1"
       ELSE /\ sup_log' = sup_log
            /\ sup_pc' = "else2"
    /\ UNCHANGED <<proc, terminate_calls, sleeps>>
    /\ UNCHANGED <<hubstate, runvars, uplinkvars, codecvars, kitchenvars,
                   eatervars, chefvars>>

\* sniffer_process.terminate()
SuperTerm1 ==
    /\ sup_pc = "term1"
    /\ terminate_calls' = Append(terminate_calls,
           [proc |-> "sniffer", state |-> proc["sniffer"],
            seen |-> seen["sniffer"]])
    /\ proc' = terminate("sniffer")
    /\ sup_pc' = "else2"
    /\ UNCHANGED <<sup_log, sleeps, seen>>
    /\ UNCHANGED <<hubstate, runvars, uplinkvars, codecvars, kitchenvars,
                   eatervars, chefvars>>

\* if dumpling_emitter_process.is_alive(): logger.error(sniffer died);
\* otherwise break
SuperElse2 ==
    /\ sup_pc = "else2"
    /\ seen' = Observe("emitter")
    /\ IF is_alive("emitter")
       THEN /\ sup_log' = Append(sup_log, "sniffer died")
            /\ sup_pc' = "term2"
       ELSE /\ sup_log' = sup_log
            /\ sup_pc' = "done"
    /\ UNCHANGED <<proc, terminate_calls, sleeps>>
    /\ UNCHANGED <<hubstate, runvars, uplinkvars, codecvars, kitchenvars,
                   eatervars, chefvars>>

\* dumpling_emitter_process.terminate(); break
SuperTerm2 ==
    /\ sup_pc = "term2"
    /\ terminate_calls' = Append(terminate_calls,
           [proc |-> "emitter", state |-> proc["emitter"],
            seen |-> seen["emitter"]])
    /\ proc' = terminate("emitter")
    /\ sup_pc' = "done"
    /\ UNCHANGED <<sup_log, sleeps, seen>>
    /\ UNCHANGED <<hubstate, runvars, uplinkvars, codecvars, kitchenvars,
                   eatervars, chefvars>>

\* except KeyboardInterrupt: logger.warning(...); the children are not
\* touched.
SuperInterrupt ==
    /\ InLoop
    /\ sup_pc' = "interrupted"
    /\ sup_log' = Append(sup_log, "keyboard interrupt")
    /\ UNCHANGED <<proc, terminate_calls, sleeps, seen>>
    /\ UNCHANGED <<hubstate, runvars, uplinkvars, codecvars, kitchenvars,
                   eatervars, chefvars>>

SuperNext ==
    \/ SuperStart
    \/ \E p \in Processes : ProcDies(p)
    \/ SuperCond1
    \/ SuperCond2
    \/ SuperSleep
    \/ SuperElse1
    \/ SuperTerm1
    \/ SuperElse2
    \/ SuperTerm2
    \/ SuperInterrupt

SuperSpec == Init /\ [][SuperNext]_vars

\* =============================================================== claims
CountOf(seq, x) == Cardinality({i \in DOMAIN seq : seq[i] = x})
Pos(seq, x) == CHOOSE i \in DOMAIN seq : seq[i] = x
Admitted == {a.f : a \in admitted}

\* The text is a JSON object with an object under "metadata" that has the
\* key "chef" / with a top-level key "payload".
HasMetadataChef(text) ==
    /\ text.json
    /\ text.doc.t = "obj"
    /\ "metadata" \in DOMAIN text.doc.m
    /\ text.doc.m["metadata"].t = "obj"
    /\ "chef" \in DOMAIN text.doc.m["metadata"].m
HasPayload(text) ==
    /\ text.json
    /\ text.doc.t = "obj"
    /\ "payload" \in DOMAIN text.doc.m

\* The chef named in a frame the hub relays.
IsStatusFrame(f) ==
    f.text.doc.m["metadata"].m["chef"] = JStr("SystemStatusChef")
NonStatus(seq) == SelectSeq(seq, LAMBDA f : ~IsStatusFrame(f))

\* The ingress task of a frame's producer is still fanning the frame out.
InFanout(f) == kpc[f.src] = "fanout" /\ kcur[f.src] = f

\* C1: every frame admitted by ingress is put exactly once on the queue of
\* every consumer that was in the consumer table when it was pushed, and on
\* no queue of a consumer that was not in the table then (removed before,
\* or registered after).
C1_FanoutToRegistered ==
    \A a \in admitted : \A e \in Eaters :
        LET n == CountOf(enqueued[e], a.f) IN
        /\ n <= 1
        /\ e \notin a.regs => n = 0
        /\ (e \in a.regs /\ ~InFanout(a.f)) => n = 1

\* A frame was pushed to a registered consumer while another consumer,
\* which had taken an earlier frame of the same producer, was already
\* removed.
C1_Witness ==
    \E a \in admitted : \E e1, e2 \in Eaters :
        /\ ~InFanout(a.f)
        /\ e1 \in a.regs
        /\ CountOf(enqueued[e1], a.f) = 1
        /\ e2 \notin a.regs
        /\ epc[e2] = "done"
        /\ \E g \in Range(enqueued[e2]) : g.src = a.f.src /\ g.seq < a.f.seq

C4_SameOrder ==
    \A e1, e2 \in Eaters :
        \A f, g \in Range(esent[e1]) \cap Range(esent[e2]) :
            (Pos(esent[e1], f) < Pos(esent[e1], g))
                <=> (Pos(esent[e2], f) < Pos(esent[e2], g))

\* Two consumers were each written a frame of one producer and a frame of
\* another producer.
C4_Witness ==
    \E e1, e2 \in Eaters : \E f, g \in Range(esent[e1]) \cap Range(esent[e2]) :
        /\ e1 # e2
        /\ f.src \in Kitchens
        /\ g.src \in Kitchens
        /\ f.src # g.src

\* C7: a frame that is not JSON or lacks metadata.chef costs one error log,
\* leaves dumplings_in, every consumer queue and the producer's record as
\* they were and the ingress task reading; every valid frame a producer
\* sent, also after invalid ones, is admitted.
C7_InvalidStep(k) ==
    (/\ Len(received'[k]) = Len(received[k]) + 1
     /\ ~HasMetadataChef(received'[k][Len(received'[k])].text))
    => /\ log_errors' = log_errors + 1
       /\ dumplings_in' = dumplings_in
       /\ queue' = queue
       /\ enqueued' = enqueued
       /\ dumpling_kitchens' = dumpling_kitchens
       /\ k \in Range(dumpling_kitchens)
       /\ kpc'[k] = "recv"

C7_ValidAdmitted ==
    \A k \in Kitchens : \A i \in DOMAIN received[k] :
        HasMetadataChef(received[k][i].text) => received[k][i] \in Admitted

C7_InvalidFrameDropped ==
    /\ [][\A k \in Kitchens : C7_InvalidStep(k)]_vars
    /\ []C7_ValidAdmitted

\* A producer sent an invalid frame and then a valid one, which a consumer
\* was written.
C7_Witness ==
    \E k \in Kitchens : \E e \in Eaters :
        /\ Len(received[k]) >= 2
        /\ ~HasMetadataChef(received[k][1].text)
        /\ received[k][2] \in Range(esent[e])
        /\ log_errors = 1

\* C8: dumplings_in is the number of frames admitted and never decreases,
\* dumplings_out is the number of frames written to consumer streams, and
\* no step of the status synthesizer changes either counter.
C8_Counts ==
    /\ dumplings_in = Cardinality(admitted)
    /\ dumplings_out = SumOver([e \in Eaters |-> Len(esent[e])], Eaters)

C8_Step ==
    /\ dumplings_in' >= dumplings_in
    /\ (nstatus' # nstatus \/ spc' # spc \/ sidx' # sidx)
           => (dumplings_in' = dumplings_in /\ dumplings_out' = dumplings_out)

Receiving(e) ==
    /\ e \in Range(dumpling_eaters)
    /\ epc[e] \in {"get", "send"}
    /\ eopen[e]
    /\ ~stalled[e]

\* k is the one producer that has sent, and e was registered before its
\* first dumpling.
C2_Pre(k, e) ==
    /\ received[k] # <<>>
    /\ \A j \in Kitchens \ {k} : received[j] = <<>>
    /\ e \in kfirst[k]

\* The valid dumplings k sent; e was written exactly those.
ValidSent(k) == SelectSeq(received[k], LAMBDA f : HasMetadataChef(f.text))
C2_Delivered(k, e) == NonStatus(esent[e]) = ValidSent(k)

IsPrefix(s, t) == Len(s) <= Len(t) /\ \A i \in DOMAIN s : s[i] = t[i]

\* C2: with one producer and a consumer registered before the producer's
\* first dumpling, the consumer is never written anything but the valid
\* dumplings the producer sent, in the number sent (status dumplings
\* aside), and as long as its stream stays open and accepts the writes it
\* is eventually written all of them; none is lost or duplicated.
C2_ExactlyN ==
    /\ [](\A k \in Kitchens : \A e \in Eaters :
            C2_Pre(k, e) => IsPrefix(NonStatus(esent[e]), ValidSent(k)))
    /\ []<>(\A k \in Kitchens : \A e \in Eaters :
            C2_Pre(k, e) => (C2_Delivered(k, e) \/ ~Receiving(e)))

\* The consumer was written the two valid dumplings of the one producer.
C2_Witness ==
    \E k \in Kitchens : \E e \in Eaters :
        /\ C2_Pre(k, e)
        /\ Len(ValidSent(k)) = 2
        /\ C2_Delivered(k, e)
        /\ Receiving(e)

\* Frames admitted while e was registered that e has not been written.
Backlog(e) == {a.f : a \in {b \in admitted : e \in b.regs}} \ Range(esent[e])

\* C5: whatever the other consumers do, also one that never accepts a
\* write, a registered consumer whose stream is open and accepting is
\* eventually written every frame admitted while it was registered.
C5_NoStall ==
    \A e \in Eaters :
        [](Backlog(e) # {} => <>(Backlog(e) = {} \/ ~Receiving(e)))

\* A consumer is suspended in send with frames piling up in its queue while
\* another consumer has been written a frame admitted since.
C5_Witness ==
    \E e1, e2 \in Eaters :
        /\ stalled[e1]
        /\ epc[e1] = "send"
        /\ queue[e1] # <<>>
        /\ \E f \in Range(queue[e1]) :
              f \in Admitted /\ f \in Range(esent[e2])

\* C6: a fan-out of the ingress task always completes, whatever the
\* consumers have left unread, and the task reads the next frame.
C6_IngressNotBlocked ==
    \A k \in Kitchens : [](kpc[k] = "fanout" => <>(kpc[k] = "recv"))

\* The ingress task is fanning out while a consumer suspended in send has
\* an unread frame in its queue.
C6_Witness ==
    \E k \in Kitchens : \E e \in Eaters :
        /\ kpc[k] = "fanout"
        /\ stalled[e]
        /\ epc[e] = "send"
        /\ queue[e] # <<>>

\* ------------------------------------------------ validation and decoding
\* The text is a JSON object whose "metadata" is an object that has the
\* key "driver" with a value other than "packet" and "interval".
HasOtherDriver(text) ==
    /\ text.json
    /\ text.doc.t = "obj"
    /\ "metadata" \in DOMAIN text.doc.m
    /\ text.doc.m["metadata"].t = "obj"
    /\ "driver" \in DOMAIN text.doc.m["metadata"].m
    /\ text.doc.m["metadata"].m["driver"]
          \notin {JStr("packet"), JStr("interval")}

\* C9 as stated: validate_dumpling admits a frame exactly when it is valid
\* JSON with metadata.chef and a top-level payload key.
C9_Original ==
    cpc = "validated" =>
        /\ cout.exc = None => (HasMetadataChef(cin) /\ HasPayload(cin))
        /\ cout.exc # None => ~(HasMetadataChef(cin) /\ HasPayload(cin))

\* C9: validate_dumpling admits a frame, returning its parsed document,
\* exactly when the frame is valid JSON that contains metadata.chef, and
\* rejects every other frame with InvalidDumpling; the payload key plays
\* no part.
C9_AdmitsIffMetadataChef ==
    cpc = "validated" =>
        IF HasMetadataChef(cin)
        THEN cout = Ok(cin.doc)
        ELSE cout = Raise("InvalidDumpling")

\* validate_dumpling admitted a frame that has no payload key.
C9_Witness ==
    /\ cpc = "validated"
    /\ cout.exc = None
    /\ HasMetadataChef(cin)
    /\ ~HasPayload(cin)

\* C10: Dumpling.from_json fails with InvalidDumpling, and with no other
\* error, for every input that is not JSON, that lacks metadata or
\* metadata.chef, or whose driver is neither "packet" nor "interval".
C10_InvalidDumplingOnly ==
    (/\ cpc = "decoded"
     /\ \/ ~cin.json
        \/ ~HasMetadataChef(cin)
        \/ HasOtherDriver(cin))
    => cout.exc = "InvalidDumpling"

\* ------------------------------------------------------------ round trips
\* The name of a dumpling's kitchen: None, the name of the kitchen object,
\* or what from_json stored as the kitchen.
KitchenName(d) ==
    CASE d.kitchen.k = "none" -> JNull
      [] d.kitchen.k = "object" -> JStr(d.kitchen.name)
      [] OTHER -> d.kitchen.v

SameFields(d1, d2) ==
    /\ d1.chef_name = d2.chef_name
    /\ KitchenName(d1) = KitchenName(d2)
    /\ d1.driver = d2.driver
    /\ d1.creation_time = d2.creation_time
    /\ d1.payload = d2.payload

\* C11: for every wire frame that from_json decodes, with a null kitchen or
\* a kitchen name, encoding the decoded dumpling succeeds and decoding the
\* result yields a dumpling with the same chef name, kitchen, driver,
\* creation time and payload.
C11_DecodeEncodeDecode ==
    cpc = "reencoded" =>
        /\ cout.exc = None
        /\ SameFields(cout.val, from_json(cin).val)

\* C12: for every built dumpling D, from_json(to_json(D)) succeeds and has
\* the chef name, kitchen name, driver, creation time and payload of D.
C12_EncodeDecode ==
    cpc = "redecoded" =>
        /\ cout.exc = None
        /\ SameFields(cout.val, cdump)

\* A dumpling built by a chef of a kitchen, with a null payload, was
\* encoded and decoded.
C12_Witness ==
    /\ cpc = "redecoded"
    /\ cout.exc = None
    /\ cdump.kitchen = KitchenObject("K")
    /\ cdump.payload = JNull
    /\ cout.val.kitchen = KitchenValue(JStr("K"))

\* ---------------------------------------------------------------- kitchen
Last(seq) == seq[Len(seq)]

\* Thread t has just finished a handler call (by a return or a raise).
CallEnds(t) == Len(tcalls'[t]) = Len(tcalls[t]) + 1

\* The chefs whose calls in the current packet or tick of t returned a
\* payload that is not None and that json.dumps can encode.
PayloadCalls(t) ==
    SelectSeq(tcalls[t],
              LAMBDA c : ~c.raised /\ c.payload # JNull /\ Encodable(c.payload))

\* The dumplings put on the queue for packet or tick n of thread t.
PutsOf(t, n) == SelectSeq(puts, LAMBDA q : q.thread = t /\ q.n = n)

\* Within the current packet or tick of t the chefs were called one after
\* the other from the first registered on, each once.
CalledInOrder(t) ==
    /\ Len(tcalls[t]) <= Len(chefs)
    /\ \A i \in DOMAIN tcalls[t] : tcalls[t][i].chef = chefs[i]

C13_RaiseStep ==
    \A t \in Threads :
        (CallEnds(t) /\ Last(tcalls'[t]).raised) =>
            /\ log_exceptions' = log_exceptions + 1
            /\ dumpling_queue' = dumpling_queue
            /\ tpc'[t] = NextChef(t).pc
            /\ tidx'[t] = NextChef(t).idx

C13_EveryChefOnce ==
    \A t \in Threads :
        /\ CalledInOrder(t)
        \* still in the loop: the chefs before the current one were called
        /\ tpc[t] \in {"loop", "handler"} => Len(tcalls[t]) = tidx[t] - 1
        \* the loop is over: every chef was called
        /\ (tpc[t] = "wait" /\ tn[t] > 0) => Len(tcalls[t]) = Len(chefs)
        \* a thread ends in no other way than by a payload that cannot be
        \* encoded, never by a handler that raises
        /\ tpc[t] = "dead" =>
              (~Last(tcalls[t]).raised /\ ~Encodable(Last(tcalls[t]).payload))
        \* the other chefs' dumplings of this packet or tick are queued
        /\ tn[t] > 0 =>
              Len(PutsOf(t, tn[t])) = Len(PayloadCalls(t))
              /\ \A i \in DOMAIN PayloadCalls(t) :
                    PutsOf(t, tn[t])[i].chef = PayloadCalls(t)[i].chef

\* C13: a handler that raises costs one error log and no dumpling and the
\* loop goes on with the next chef, so that for every packet and every
\* tick every registered chef's handler is called exactly once, in order,
\* and the dumplings of the chefs that returned a payload are queued; a
\* raising handler never ends a thread.
C13_BrokenHandler == []C13_EveryChefOnce /\ [][C13_RaiseStep]_vars

\* A packet is done: the first chef raised, the second chef's dumpling is
\* on the queue.
C13_Witness ==
    /\ tpc["sniff"] = "wait"
    /\ Len(chefs) = 2
    /\ Len(tcalls["sniff"]) = 2
    /\ tcalls["sniff"][1].raised
    /\ tcalls["sniff"][2].payload = JNum(0)
    /\ Len(PutsOf("sniff", tn["sniff"])) = 1
    /\ log_exceptions >= 1

\* C14: a handler's payload that cannot be JSON-encoded drops only that
\* dumpling: nothing is queued for it, the loop goes on with the remaining
\* chefs, and the thread stays alive for later packets and ticks.
C14_DropsOnlyThatDumpling ==
    [][\A t \in Threads :
          (/\ CallEnds(t)
           /\ ~Last(tcalls'[t]).raised
           /\ ~Encodable(Last(tcalls'[t]).payload)) =>
              /\ dumpling_queue' = dumpling_queue
              /\ tpc'[t] = NextChef(t).pc
              /\ tidx'[t] = NextChef(t).idx]_vars

\* The encoded dumpling q carries chef c of the kitchen and the driver of
\* thread t.
IsDumplingOf(text, c, t) ==
    /\ HasMetadataChef(text)
    /\ text.doc.m["metadata"].m["chef"] = JStr(ChefName(c))
    /\ text.doc.m["metadata"].m["kitchen"] = JStr(TheKitchenName)
    /\ text.doc.m["metadata"].m["driver"] = JStr(Driver(t))

\* C15: chefs are called in registration order; a handler that returns
\* None queues nothing and a handler that returns another (encodable)
\* payload queues exactly one encoded dumpling of its chef, with the
\* thread's driver and that payload, so the dumplings of one packet (or
\* tick) are on the queue in registration order.
C15_RegistrationOrder ==
    /\ Len(dumpling_queue) = Len(puts)
    /\ \A i \in DOMAIN puts :
          IsDumplingOf(dumpling_queue[i], puts[i].chef, puts[i].thread)
    /\ \A i, j \in DOMAIN puts :
          (i < j /\ puts[i].thread = puts[j].thread /\ puts[i].n = puts[j].n)
              => Pos(chefs, puts[i].chef) < Pos(chefs, puts[j].chef)
    /\ \A t \in Threads :
          /\ CalledInOrder(t)
          /\ tn[t] > 0 =>
                /\ Len(PutsOf(t, tn[t])) = Len(PayloadCalls(t))
                /\ \A i \in DOMAIN PayloadCalls(t) :
                      \E k \in DOMAIN puts :
                          /\ puts[k] = [thread |-> t, n |-> tn[t],
                                        chef |-> PayloadCalls(t)[i].chef]
                          /\ dumpling_queue[k].doc.m["payload"]
                                = PayloadCalls(t)[i].payload

\* Both chefs returned a payload for one packet and their dumplings are on
\* the queue in registration order, the second registered chef being
\* chef 1.
C15_Witness ==
    /\ chefs = <<2, 1>>
    /\ tpc["sniff"] = "wait"
    /\ Len(PayloadCalls("sniff")) = 2
    /\ Len(PutsOf("sniff", tn["sniff"])) = 2
    /\ PutsOf("sniff", tn["sniff"])[1].chef = 2

\* C16: the packet handler and the interval handler of one chef never
\* execute at the same time.
C16_NeverConcurrent ==
    ~(/\ tpc["sniff"] = "handler"
      /\ tpc["poke"] = "handler"
      /\ chefs[tidx["sniff"]] = chefs[tidx["poke"]])

\* ------------------------------------------------------------------ eater
OnDumplingCalls == SelectSeq(hook_calls, LAMBDA c : c.hook = "on_dumpling")
ReceivedValid ==
    SelectSeq(ws_in, LAMBDA text : validate_dumpling(text).exc = None)
ChefNameOf(text) == validate_dumpling(text).val.m["metadata"].m["chef"]
InChefFilter(text) ==
    \/ eater_chefs = JNull
    \/ \E i \in DOMAIN eater_chefs.v : eater_chefs.v[i] = ChefNameOf(text)
ReceivedWanted == SelectSeq(ReceivedValid, InChefFilter)

\* C17: on_dumpling is invoked for a received valid dumpling if and only
\* if the chef filter is null or holds the dumpling's chef name: the
\* invocations of on_dumpling are exactly the received valid dumplings
\* that pass the filter, in order, each with the decoded dumpling, and the
\* eaten counter counts exactly those.
C17_FilterIff ==
    /\ Len(OnDumplingCalls) = Len(ReceivedWanted)
    /\ \A i \in DOMAIN OnDumplingCalls :
          OnDumplingCalls[i].arg = validate_dumpling(ReceivedWanted[i]).val
    /\ dumplings_eaten = Len(ReceivedWanted)

\* A filter is set; a dumpling of a chef outside it was received and not
\* passed on, one of a chef inside it was.
C17_Witness ==
    /\ eater_chefs # JNull
    /\ Len(ReceivedValid) = 2
    /\ Len(OnDumplingCalls) = 1
    /\ dumplings_eaten = 1
    /\ ChefNameOf(ReceivedValid[1]) = JStr("ChefB")

HasLimit == dumpling_count # JNull /\ dumpling_count.n >= 1
ClosedFull == \E i \in DOMAIN ws_close : ws_close[i] = EATER_FULL
\* on_dumpling returns to _grab_dumplings (it is not cancelled).
OnDumplingReturns ==
    /\ gpc = "in_on_dumpling"
    /\ gpc' # "in_on_dumpling"
    /\ eater_log' = eater_log

\* C18: with an eat-limit N >= 1 the eater closes its stream with 4102 in
\* the step in which the N-th on_dumpling invocation returns and its
\* receive loop ends; it closes with 4102 at no other moment, never
\* invokes on_dumpling more than N times, and after that close it
\* receives no frame and invokes no hook.
C18_StopsAtLimit ==
    /\ [](HasLimit =>
            /\ Len(OnDumplingCalls) <= dumpling_count.n
            /\ ClosedFull =>
                  /\ ws_close = <<EATER_FULL>>
                  /\ gpc = "done"
                  /\ Len(OnDumplingCalls) = dumpling_count.n)
    /\ [][/\ (HasLimit /\ OnDumplingReturns
                 /\ Len(OnDumplingCalls) = dumpling_count.n)
             => (ws_close' = <<EATER_FULL>> /\ gpc' = "done")
          /\ (HasLimit /\ OnDumplingReturns
                 /\ Len(OnDumplingCalls) < dumpling_count.n)
             => (ws_close' = <<>> /\ gpc' = "recv")
          /\ (HasLimit /\ ClosedFull)
             => UNCHANGED <<ws_in, ws_out, ws_close, hook_calls, gpc>>]_vars

\* The limit is 2, two dumplings were passed to on_dumpling and the
\* stream was closed with 4102.
C18_Witness ==
    /\ dumpling_count = JNum(2)
    /\ Len(OnDumplingCalls) = 2
    /\ ws_close = <<EATER_FULL>>
    /\ gpc = "done"

\* C19: an eater built without one of its hooks still runs: run() does
\* not refuse it, and once it is connected with no on_connect given, the
\* default on_connect has logged its warning.
C19_AbsentHookDefault ==
    /\ (on_dumpling = None /\ on_connect \in {None, "callable"}
          /\ on_connection_lost \in {None, "callable"})
       => gpc # "returned"
    /\ (on_connect = None /\ gpc = "recv" /\ ws_in = <<>>)
       => eater_log = <<"warning">>

NotCallable(hook) == hook \in {"str", "zero"}

\* C20: if any hook given is not callable, run() logs the error and
\* returns: no connection is opened, no frame sent, no hook invoked.
C20_NotCallableFatal ==
    (NotCallable(on_connect) \/ NotCallable(on_dumpling)
        \/ NotCallable(on_connection_lost))
    => /\ gpc \in {"new", "built", "returned"}
       /\ gpc = "returned" => eater_log = <<"error">>
       /\ ~was_connected
       /\ ws_out = <<>>
       /\ hook_calls = <<>>

LostCalls == SelectSeq(hook_calls, LAMBDA c : c.hook = "on_connection_lost")
EaterRaised(ev) == \E i \in DOMAIN ws_events : ws_events[i] = ev

FrameArrives(text) == gpc = "recv" /\ ws_in' = Append(ws_in, text)
\* It is logged as an error and skipped.
FrameSkipped ==
    /\ eater_log' = Append(eater_log, "error")
    /\ hook_calls' = hook_calls
    /\ dumplings_eaten' = dumplings_eaten
    /\ ws_close' = ws_close
    /\ eater_exc' = eater_exc
    /\ gpc' = "recv"

KitchenStreamClosed(k) == kpc[k] \in {"dead", "done"}
\* A consumer's stream is closed once its handler has ended, or once the
\* remote end has closed it and a frame is there to be written to it. A
\* remote close met with an empty queue becomes the second case at the
\* next status round, which puts a frame on every queue.
EaterStreamClosed(e) ==
    \/ epc[e] \in {"dead", "done"}
    \/ /\ epc[e] \in {"get", "send"}
       /\ ~eopen[e]
       /\ (epc[e] = "send" \/ queue[e] # <<>>)

\* C23: every producer and consumer whose stream closed, by a remote
\* close or by its handler task ending through an error, is eventually
\* absent from the hub's tables.
C23_RecordsRemoved ==
    []<>(/\ \A k \in Kitchens :
               KitchenStreamClosed(k) => k \notin Range(dumpling_kitchens)
         /\ \A e \in Eaters :
               EaterStreamClosed(e) => e \notin Range(dumpling_eaters))

Count(seq, x) == Cardinality({i \in DOMAIN seq : seq[i] = x})
StatusMeta(f) == f.text.doc.m["metadata"].m
StatusRoundBegins == nstatus' = nstatus + 1

\* C24: every status round builds one dumpling with chef SystemStatusChef,
\* kitchen null, driver interval and the system status of that moment as
\* payload, written as json.dumps writes it; once its fan-out is over it
\* is exactly once on the queue history of every consumer registered when
\* it was built and never on another's or twice; a round begins only at
\* start or after the sleep, status_freq seconds after the round before.
C24_StatusRound ==
    /\ [](\A a \in announced :
            /\ a.f.text.form = "dumps"
            /\ StatusMeta(a.f)["chef"] = JStr("SystemStatusChef")
            /\ StatusMeta(a.f)["kitchen"] = JNull
            /\ StatusMeta(a.f)["driver"] = JStr("interval")
            /\ a.f.text.doc.m["payload"].m["server_uptime"]
                  = JNum((a.f.seq - 1) * HUB_STATUS_FREQ)
            /\ \A e \in Eaters :
                  /\ Count(enqueued[e], a.f) <= 1
                  /\ e \notin a.regs => Count(enqueued[e], a.f) = 0
                  /\ (e \in a.regs /\ ~(spc = "fanout" /\ scur = a.f))
                     => Count(enqueued[e], a.f) = 1)
    /\ [][StatusRoundBegins =>
            /\ spc \in {"start", "sleep"}
            /\ \E a \in announced' \ announced :
                  /\ announced' = announced \cup {a}
                  /\ a.f.seq = nstatus'
                  /\ a.regs = Range(dumpling_eaters)
                  /\ a.f.text.doc.m["payload"] = _get_system_status]_vars

\* The second status round reached two consumers; the first was built
\* when only one of them was registered.
C24_Witness ==
    \E a, b \in announced :
        /\ a.f.seq = 1
        /\ b.f.seq = 2
        /\ Cardinality(a.regs) = 1
        /\ Cardinality(b.regs) = 2
        /\ spc = "sleep"
        /\ \A e \in b.regs : Count(enqueued[e], b.f) = 1

\* C25: the hub relays frames unchanged: every producer frame put on a
\* consumer's queue is, text and all, the frame read from the producer,
\* and every frame written to a consumer is a frame that was put on its
\* queue, the frames written being the first ones put, in order.
C25_RelayPreserves ==
    \A e \in Eaters :
        /\ \A i \in DOMAIN enqueued[e] :
              enqueued[e][i].src \in Kitchens
                  => /\ enqueued[e][i].seq
                           \in DOMAIN received[enqueued[e][i].src]
                     /\ received[enqueued[e][i].src][enqueued[e][i].seq]
                           = enqueued[e][i]
        /\ IsPrefix(esent[e], enqueued[e])

\* A consumer was written a producer's frame that is not written the way
\* json.dumps would write it.
C25_Witness ==
    \E e \in Eaters : \E i \in DOMAIN esent[e] :
        /\ esent[e][i].src \in Kitchens
        /\ esent[e][i].text.form = "other"
        /\ esent[e][i].text # Text(esent[e][i].text.doc)

\* C26: the hub serves only with both ports bound; when the ingress or
\* the egress bind failed, run() raised NetDumplingsError, the status task
\* was not scheduled, nothing was served, and the command exited with 1.
C26_BindFailure ==
    /\ rpc = "serving" => (bound = <<"in", "out">> /\ status_task)
    /\ (rpc # "new" /\ bound # <<"in", "out">>)
       => /\ rpc = "exited"
          /\ run_exc = "NetDumplingsError"
          /\ exit_codes = <<1>>
          /\ ~status_task
          /\ nstatus = 0
          /\ dumpling_kitchens = <<>>
          /\ dumpling_eaters = <<>>
          /\ \A k \in Kitchens : kpc[k] = "idle"
          /\ \A e \in Eaters : epc[e] = "idle"

\* The ingress port was bound, the egress bind failed and the command
\* exited with 1.
C26_Witness ==
    /\ bound = <<"in">>
    /\ rpc = "exited"
    /\ exit_codes = <<1>>

\* ------------------------------------------------------------ the uplink
\* C27: once connected, the first frame the uplink writes is the kitchen
\* identity, written once; the frames after it are the dumplings taken
\* from the queue, each written once, in the order they were taken, and
\* none is passed over.
C27_IdentityThenDumplings ==
    /\ up_dequeued # <<>> => up_sent # <<>>
    /\ up_sent # <<>> =>
         /\ up_sent[1] = Text(JObj([kitchen_name |-> JStr(TheKitchenName),
                                    interface |-> JStr("all"),
                                    filter |-> JStr(""),
                                    chefs |-> JList(<<JStr("ChefA")>>),
                                    poke_interval |-> JNum(5)]))
         /\ \A i \in 2..Len(up_sent) : up_sent[i] # up_sent[1]
         /\ Len(up_sent) - 1 <= Len(up_dequeued)
         /\ \A i \in 2..Len(up_sent) : up_sent[i] = up_dequeued[i - 1]
         /\ \A i, j \in DOMAIN up_sent : up_sent[i] = up_sent[j] => i = j
    /\ upc = "get" => Len(up_sent) = Len(up_dequeued) + 1
    /\ upc = "send" => Len(up_sent) = Len(up_dequeued)
C27_Witness ==
    /\ upc = "get"
    /\ Len(up_sent) = 3
    /\ up_queue # <<>>

\* C28: an uplink task cancelled after it connected, while the hub keeps
\* the stream open, eventually closes the stream with code 4101 and is
\* over.
C28_CancelCloses ==
    (UplinkActive /\ up_cancel /\ up_open)
        ~> \/ upc = "done" /\ up_close = <<4101>>
           \/ UplinkActive /\ ~up_open

\* C29: once the hub has closed the stream of a connected uplink, the
\* uplink eventually leaves its forwarding loop.
C29_LossNoticed == (UplinkActive /\ ~up_open) ~> upc = "done"

\* ----------------------------------------------------- kitchen, continued
DriverOf(text) == text.doc.m["metadata"].m["driver"]

\* C30: in a kitchen run with chef_poke_interval None the poke thread does
\* not exist: it takes no tick, calls no handler and queues nothing; every
\* queued dumpling has driver packet and comes from the capture thread,
\* which dispatches as in any run.
C30_NoPokeWorker ==
    (started /\ chef_poke_interval = JNull) =>
        /\ tpc["poke"] = "off"
        /\ tn["poke"] = 0
        /\ tcalls["poke"] = <<>>
        /\ \A i \in DOMAIN puts : puts[i].thread = "sniff"
        /\ \A i \in DOMAIN dumpling_queue :
               DriverOf(dumpling_queue[i]) = JStr("packet")
        /\ tpc["sniff"] # "off"
        /\ (tpc["sniff"] = "wait" /\ tn["sniff"] >= 1)
               => Len(tcalls["sniff"]) = Len(chefs)
C30_Witness ==
    /\ started
    /\ chef_poke_interval = JNull
    /\ Len(chefs) = 2
    /\ tn["sniff"] = 2
    /\ Len(dumpling_queue) >= 3
    /\ tpc["sniff"] = "wait"

\* ------------------------------------------------------- hub, shutdown
\* C31: when run() has returned after a termination signal, the status
\* task was cancelled and every stream that was open was closed with
\* code 4101.
C31_ShutdownCloses ==
    rpc = "returned" =>
        /\ "status_task" \in cancelled
        /\ \A k \in Kitchens : kpc[k] = "stopped" => closed_with[k] = 4101
        /\ \A e \in Eaters :
               (epc[e] = "stopped" /\ closed_with[e] # 0)
                   => closed_with[e] = 4101

\* --------------------------------------------------------- the drivers
\* C32: a dumpling made in response to a poke has driver interval and one
\* made in response to a packet has driver packet, in the kitchen's two
\* dispatch paths and in the handlers of the bundled chefs.
C32_DriverMatchesCause ==
    /\ \A i \in DOMAIN puts :
          DriverOf(dumpling_queue[i]) =
              JStr(IF puts[i].thread = "poke" THEN "interval" ELSE "packet")
    /\ \A i \in DOMAIN made :
          made[i].driver = IF made[i].handler = "interval_handler"
                           THEN "interval" ELSE "packet"

\* ---------------------------------------------------- the status payload
StatusKeys ==
    {"total_dumplings_in", "total_dumplings_out", "server_uptime",
     "dumpling_kitchen_count", "dumpling_eater_count", "dumpling_kitchens",
     "dumpling_eaters"}
WellFormedStatus(payload, nkitchens, neaters) ==
    /\ payload.t = "obj"
    /\ DOMAIN payload.m = StatusKeys
    /\ payload.m["dumpling_kitchen_count"] = JNum(nkitchens)
    /\ payload.m["dumpling_eater_count"] = JNum(neaters)
    /\ Len(payload.m["dumpling_kitchens"].v) = nkitchens
    /\ Len(payload.m["dumpling_eaters"].v) = neaters

FirstFrameTaken(k) == kpc[k] = "idle" /\ kpc'[k] # "idle"

OnConnectCalls == SelectSeq(hook_calls, LAMBDA c : c.hook = "on_connect")

\* C35: the first thing the eater writes is its identity frame; no hook is
\* invoked before it; once the eater receives, on_connect has been invoked
\* exactly once and before any other hook; a frame is received only while
\* no hook is running, and the on_dumpling invocations follow the order of
\* the frames received.
C35_ConnectThenReceive ==
    /\ [](/\ ws_out # <<>> => ws_out[1] = Text(JObj(Pair("eater_name",
                                                          JStr("E"))))
          /\ hook_calls # <<>> => ws_out # <<>>
          /\ (gpc \in {"recv", "in_on_dumpling"} \/ ws_in # <<>>)
                => /\ Len(OnConnectCalls) = 1
                   /\ hook_calls[1].hook = "on_connect"
          /\ \A i \in DOMAIN OnDumplingCalls :
                OnDumplingCalls[i].arg
                    = validate_dumpling(ReceivedWanted[i]).val)
    /\ [][ws_in' # ws_in => gpc = "recv"]_vars

\* C37: with an eat-limit N given, 0 included, on_dumpling is invoked at
\* most N times.
C37_AtMostLimit ==
    dumpling_count # JNull => Len(OnDumplingCalls) <= dumpling_count.n

\* C36: nd-sniff keeps polling while it sees both children alive; once it
\* sees that one is not alive it calls terminate at most once, only on a
\* child whose is_alive() check has just returned true, and leaves its
\* loop; when the loop ends this way neither child is running.
C36_SupervisorStops ==
    /\ sup_pc = "sleep" => \A p \in Processes : seen[p] = "alive"
    /\ sup_pc \in {"else1", "term1", "else2", "term2", "done"}
           => \E p \in Processes : seen[p] = "dead"
    /\ Len(terminate_calls) <= 1
    /\ \A i \in DOMAIN terminate_calls : terminate_calls[i].seen = "alive"
    /\ sup_pc = "done" => \A p \in Processes : proc[p] # "running"

\* C36: the sniffer died after three polls, the emitter was terminated,
\* the loop has ended.
C36_Witness ==
    /\ sup_pc = "done"
    /\ sleeps = MaxSleeps
    /\ proc = [p \in Processes |->
                  IF p = "sniffer" THEN "dead" ELSE "terminated"]
    /\ Len(terminate_calls) = 1
    /\ terminate_calls[1].proc = "emitter"
    /\ sup_log = <<"sniffer died">>

\* C36 as stated: terminate is never called on a dead process, the loop
\* goes on while both children are alive, and once it has ended neither
\* child is running.
C36_AsStated ==
    /\ \A i \in DOMAIN terminate_calls :
           terminate_calls[i].state = "running"
    /\ sup_pc \in {"done", "interrupted"}
           => \A p \in Processes : proc[p] # "running"

\* C38: for every consumer in the table, the frames put on its queue are
\* the frames written to its stream, the frames still in its queue, and
\* the one frame, if any, that has been taken off the queue and is being
\* written; dumplings_out never exceeds the frames put on all queues.
C38_QueueConservation ==
    /\ \A e \in Range(dumpling_eaters) :
           Len(enqueued[e]) = Len(esent[e]) + Len(queue[e])
                              + (IF epc[e] = "send" THEN 1 ELSE 0)
    /\ dumplings_out
           <= SumOver([e \in Eaters |-> Len(enqueued[e])], Eaters)

\* C38: a registered consumer with one frame being written and one
\* waiting in its queue, while another consumer has had a frame written.
C38_Witness ==
    \E e, f \in Range(dumpling_eaters) :
        /\ e # f
        /\ epc[e] = "send"
        /\ Len(esent[e]) = 0
        /\ Len(queue[e]) = 1
        /\ Len(enqueued[e]) = 2
        /\ Len(esent[f]) >= 1
        /\ dumplings_out >= 1

\* The identity a record was made from names its peer.
NamesPeer(meta, infokey, namekey) ==
    Subscript(Subscript(meta, infokey).val, namekey).exc = None

\* C40: every record in the consumer table belongs to a live egress task
\* that takes frames from the record's queue, every record in the
\* producer table belongs to a live ingress task, and no peer whose
\* identity frame lacks eater_name / kitchen_name is in a table.
C40_RecordsLive ==
    /\ \A e \in Range(dumpling_eaters) :
           /\ epc[e] \in {"get", "send"}
           /\ NamesPeer(emeta[e], "info_from_eater", "eater_name")
    /\ \A k \in Range(dumpling_kitchens) :
           /\ kpc[k] \in {"recv", "fanout"}
           /\ NamesPeer(kmeta[k], "info_from_kitchen", "kitchen_name")
====
